---- MODULE Spec2Model ----
(***************************************************************************)
(* Model of examples/agnostic-3agents/run_orchestrator_loop.py: the        *)
(* round/phase state machine of main(), the approval gate, the text        *)
(* condensation functions and the state file.                              *)
(*                                                                         *)
(* A text is modelled by the value of its splitlines(): a sequence of      *)
(* lines.  "\n".join(lines) is Join(lines), which drops the one trailing   *)
(* empty line that splitlines() would not give back.  A regular            *)
(* expression is modelled by the set of lines of the alphabet it matches.  *)
(***************************************************************************)
EXTENDS Integers, Sequences, FiniteSets, TLC

\* ------------------------------------------------------------------------
\* Bounds of the model (configuration values are drawn up to these).
MaxRoundsBound == 2
MaxCyclesBound == 2
MinCyclesBound == 2
\* The configured line limits, small enough for the sample texts to exceed them.
FeedbackLinesCfg == 2
TestEvidenceLinesCfg == 3
CrossPhaseLinesCfg == 2
\* The handoff timing: POLL_SECONDS, IDLE_GRACE_SECONDS, RESPONSE_TIMEOUT, the
\* last value of the clock, and the files an agent creates during one call.
PollSecondsCfg == 1
IdleGraceCfg == 1
ResponseTimeoutCfg == 3
MaxClock == 5
MaxAgentFiles == 2
\* The review texts given to the approval gate: their length, and the
\* largest REVIEW_EVIDENCE_MIN_MATCH.
MaxReviewLines == 4
MaxEvidenceMatch == 2
MaxNoteLines == 2
MaxExploreCalls == 4
MaxCondenseLines == 4
MaxScreenLines == 4

\* ------------------------------------------------------------------------
\* Program constants.
PHASE_ANALYST == "analyst"
PHASE_PROGRAMMER == "programmer"
PHASE_TESTER == "tester"
PHASE_DONE == "done"

Phases == {PHASE_ANALYST, PHASE_PROGRAMMER, PHASE_TESTER, PHASE_DONE}

VALID_AGENT_ROLES == {"analyst", "peer_analyst", "programmer", "peer_programmer", "tester"}

\* Output slots, which are also the response-file roles of send_and_wait.
Slots == {"analyst", "analyst_review", "programmer", "programmer_review", "tester"}

\* The order in which "for key in outputs" visits the slots.
SlotOrder == <<"analyst", "analyst_review", "programmer", "programmer_review", "tester">>

_ROLE_PHASE_MAP ==
    [r \in VALID_AGENT_ROLES |->
        CASE r \in {"analyst", "peer_analyst"} -> PHASE_ANALYST
          [] r \in {"programmer", "peer_programmer"} -> PHASE_PROGRAMMER
          [] OTHER -> PHASE_TESTER]

\* The role whose terminal receives the prompt of a response slot.
SlotRole ==
    [s \in Slots |->
        CASE s = "analyst_review" -> "peer_analyst"
          [] s = "programmer_review" -> "peer_programmer"
          [] OTHER -> s]

_UPSTREAM_PLACEHOLDER == <<"(No upstream output - START_AGENT skipped this phase. Use codebase and prompt for context.)">>

\* Default of limits.review_evidence_min_match.
REVIEW_EVIDENCE_MIN_MATCH_DEFAULT == 3

NoneYet == <<"None yet.">>
EmptyText == <<>>

ANALYST_GATE_NOTICE == "Peer analyst did not approve after MAX_REVIEW_CYCLES. Latest review:"
PROGRAMMER_GATE_NOTICE == "Peer programmer did not approve after MAX_REVIEW_CYCLES. Latest review:"

\* ------------------------------------------------------------------------
\* Regular expressions, as the sets of alphabet lines they match.

\* Lines that str.strip() reduces to "".
WhitespaceLines == {"", " "}

\* Fault variant of PASS_RESULT_RE: the pattern matches any RESULT: line.
PASS_RESULT_RE_AnyResult == {"RESULT: PASS", "  result: pass", "RESULT: FAIL"}

\* PASS_RESULT_RE = ^\s*RESULT:\s*PASS\b (MULTILINE, IGNORECASE)
PASS_RESULT_RE == {"RESULT: PASS", "  result: pass"}

\* ^\s*RESULT: (IGNORECASE), the line filter of extract_test_evidence
RESULT_LINE_RE == PASS_RESULT_RE \cup {"RESULT: FAIL"}

\* ^\s*EVIDENCE:
EVIDENCE_RE == {"EVIDENCE:"}

\* APPROVED_REVIEW_RE = ^\s*REVIEW_RESULT:\s*APPROVED\b
APPROVED_REVIEW_RE == {"REVIEW_RESULT: APPROVED"}

\* ^\s*REVIEW_NOTES:
REVIEW_NOTES_RE == {"REVIEW_NOTES:"}

\* The section anchors of the cross-phase condensation.
OPENSPEC_RE == {"- OpenSpec artifacts: proposal.md"}
IMPL_NOTES_RE == {"- Implementation notes: edit a.py"}
RISKS_RE == {"- Risks: none"}
DOWNSTREAM_RE == {"- Downstream impact: api"}
FILES_CHANGED_RE == {"- Files changed: a.py"}
BEHAVIOR_RE == {"- Behavior implemented: x"}
KNOWN_LIMITS_RE == {"- Known limitations: none"}

\* Occurrences of the evidence patterns' alternatives in a line. A pattern of
\* ANALYST_EVIDENCE_PATTERNS is (domain)\w*\s.{0,w}(approval): Domain(n, to, next)
\* is an occurrence of pattern n's first group, extended by \w*, that ends at
\* column to and is followed by a space or by the end of the line;
\* Verdict(n, from) is an occurrence of its last group starting at column from.
\* A pattern of PROGRAMMER_EVIDENCE_PATTERNS is one alternation of keywords:
\* Keyword(n, from) is an occurrence of one of pattern n's keywords.
Domain(n, to, next) == [set |-> "analyst", n |-> n, part |-> "domain", at |-> to, next |-> next]
Verdict(n, from) == [set |-> "analyst", n |-> n, part |-> "verdict", at |-> from, next |-> "none"]
Keyword(n, from) == [set |-> "programmer", n |-> n, part |-> "keyword", at |-> from, next |-> "none"]

Keywords(line) ==
    CASE line = "- proposal verified" ->
          {Domain(1, 10, "space"), Verdict(1, 12)}
      [] line = "- P1 traceability confirmed" ->
          {Domain(2, 4, "space"), Domain(2, 17, "space"), Verdict(2, 19)}
      [] line = "- code change reviewed" ->
          {Keyword(1, 3), Keyword(1, 8)}
      [] line = "- tests run with pytest" ->
          {Keyword(2, 3), Keyword(2, 9), Keyword(2, 18), Keyword(2, 20)}
      [] line = "- artifacts and downstream handoff are fine" ->
          {Domain(1, 11, "space"), Domain(3, 26, "space"), Domain(4, 34, "space")}
      [] line = "- proposal read from the first to the last page: verified" ->
          {Domain(1, 10, "space"), Verdict(1, 50)}
      [] line = "- see the proposal" ->
          {Domain(1, 18, "end")}
      [] line = "- verified" ->
          {Verdict(1, 3)}
      [] line = "- code, tests, risk, issue" ->
          {Keyword(1, 3), Keyword(2, 9), Keyword(3, 16), Keyword(4, 22)}
      [] line = "- downstream contract touches api.py" ->
          {Domain(3, 12, "space"), Domain(3, 21, "space"), Verdict(3, 31), Verdict(3, 32),
           Verdict(3, 33)}
      [] line = "- handoff includes 3 steps" ->
          {Domain(4, 9, "space"), Verdict(4, 11), Verdict(4, 20)}
      [] line = "- no regression risk" ->
          {Keyword(3, 6), Keyword(3, 17)}
      [] line = "- no open issue" ->
          {Keyword(4, 11)}
      [] OTHER -> {}

\* The w of .{0,w} in patterns 1..4 of ANALYST_EVIDENCE_PATTERNS.
EvidenceWindow == <<30, 30, 40, 30>>

\* The patterns of ANALYST_EVIDENCE_PATTERNS, by number, with a match inside
\* the line: \s is the space after the domain word and .{0,w} spans the
\* columns between that space and the verdict.
AnalystLineHits(line) ==
    {n \in 1..4 : \E d, v \in Keywords(line) :
        /\ d.set = "analyst" /\ d.n = n /\ d.part = "domain" /\ d.next = "space"
        /\ v.set = "analyst" /\ v.n = n /\ v.part = "verdict"
        /\ v.at - (d.at + 2) \in 0..EvidenceWindow[n]}

\* The matches in which \s is the newline: the domain word ends the line and
\* the verdict starts within the first w columns of the following line.
AnalystWrapHits(line, following) ==
    {n \in 1..4 : \E d \in Keywords(line), v \in Keywords(following) :
        /\ d.set = "analyst" /\ d.n = n /\ d.part = "domain" /\ d.next = "end"
        /\ v.set = "analyst" /\ v.n = n /\ v.part = "verdict"
        /\ v.at - 1 \in 0..EvidenceWindow[n]}

\* The patterns of PROGRAMMER_EVIDENCE_PATTERNS, by number, with a match in
\* the line: any one keyword of the alternation.
ProgrammerLineHits(line) ==
    {n \in 1..4 : \E k \in Keywords(line) : k.set = "programmer" /\ k.n = n}

\* ------------------------------------------------------------------------
\* Text helpers.

Min(a, b) == IF a < b THEN a ELSE b

Max(a, b) == IF a > b THEN a ELSE b

\* Fault variant of Take: the slice keeps every line.
Take_NoLimit(lines, n) == lines

\* lines[:n]
Take(lines, n) == SubSeq(lines, 1, Min(n, Len(lines)))

\* "\n".join(lines).splitlines(): a trailing empty line is not given back.
Join(lines) ==
    IF Len(lines) > 0 /\ lines[Len(lines)] = ""
    THEN SubSeq(lines, 1, Len(lines) - 1)
    ELSE lines

\* Fault variant of Blank: the test is "not text" without strip().
Blank_NoStrip(text) == text = <<>>

\* not text.strip()
Blank(text) == \A i \in 1..Len(text) : text[i] \in WhitespaceLines

\* pattern.search(text) for a line-anchored pattern
Search(re, text) == \E i \in 1..Len(text) : text[i] \in re

\* Index of the first line matching re, 0 if none.
FirstMatch(re, text) ==
    IF Search(re, text)
    THEN CHOOSE i \in 1..Len(text) :
            /\ text[i] \in re
            /\ \A j \in 1..(i - 1) : text[j] \notin re
    ELSE 0

\* _extract_section(text, start_pattern, stop_pattern): from the first line
\* matching start up to, not including, the first later line matching stop.
\* stop = {} models stop_pattern=None.
_extract_section(text, start, stop) ==
    LET s == FirstMatch(start, text)
    IN IF s = 0 THEN EmptyText
       ELSE LET later == {j \in (s + 1)..Len(text) : text[j] \in stop}
            IN IF later = {}
               THEN Join(SubSeq(text, s, Len(text)))
               ELSE LET e == CHOOSE j \in later : \A k \in later : j <= k
                    IN Join(SubSeq(text, s, e - 1))

\* The lines of text that match re, in order.
RECURSIVE FilterLines(_, _)
FilterLines(re, text) ==
    IF text = <<>> THEN <<>>
    ELSE (IF Head(text) \in re THEN <<Head(text)>> ELSE <<>>) \o FilterLines(re, Tail(text))

\* ------------------------------------------------------------------------
\* State.

VARIABLES
    cfg,                \* the resolved configuration (_apply_config), fixed for the run
    pc,                 \* position of main()
    exit_code,          \* NotExited, or the code given to sys.exit
    session_name,
    terminal_ids,       \* role -> terminal id, "" while unbound
    current_round,
    current_phase,
    final_status,
    feedback,
    analyst_feedback,
    programmer_feedback,
    programmer_context_for_retry,
    outputs,            \* slot -> text
    start_at_peer,      \* _start_at_peer
    explore_sent,       \* _explore_sent: terminal ids that got the full explore summary
    rnd,                \* main()'s local rnd
    analyst_cycle,      \* loop variable of the analyst review loop, 0 outside it
    programmer_cycle,   \* loop variable of the programmer review loop, 0 outside it
    analyst_approved,
    programmer_approved,
    clear_idx,          \* position of "for key in outputs" in the FAIL update, 0 outside it
    state_file,         \* the content of STATE_FILE, or NoFile
    in_flight,          \* slots whose prompt was sent and whose response is awaited
    last_prompt,        \* the last prompt given to api.send_input
    last_response,      \* the last text wait_for_response_file returned
    hist,               \* observation of the run: dispatch counts and the last gate
    resumed,            \* this process took the resume branch of main()
    crash,              \* what the killed process had completed in its current pass
    wpc,                \* position of one send_and_wait call, "off" when not followed
    response_file,      \* the file at response_path_for(role), or NoResponse
    archive,            \* the files renamed into _archive_dir(), in _response_seq order
    agent,              \* the agent's side: its open handle and the next file id
    status,             \* the status get_status returned at the current poll
    content,            \* wait_for_response_file's local content
    now,                \* time.monotonic()
    start,              \* wait_for_response_file's local start
    idle_since,         \* wait_for_response_file's local idle_since, NoTime for None
    result,             \* how the send_and_wait call ended
    obs,                \* observation of the polls of the call
    call,               \* a pure function applied to drawn inputs, and its value
    _loaded_state_terminals, \* role -> the provider load_state found in the file
    created_terminal_ids,    \* init_new_run's local list, <<>> outside it
    exit_requested,     \* the terminal ids api.exit_terminal was called for
    warned,             \* the roles verify_resume_terminals logged a warning for
    ending              \* observation of the way the process ended

vars == <<cfg, pc, exit_code, session_name, terminal_ids, current_round, current_phase,
          final_status, feedback, analyst_feedback, programmer_feedback,
          programmer_context_for_retry, outputs, start_at_peer, explore_sent, rnd,
          analyst_cycle, programmer_cycle, analyst_approved, programmer_approved,
          clear_idx, state_file, in_flight, last_prompt, last_response, hist,
          resumed, crash, wpc, response_file, archive, agent, status, content, now,
          start, idle_since, result, obs, call, _loaded_state_terminals,
          created_terminal_ids, exit_requested, warned, ending>>

\* The RunState globals.
runVars == <<current_round, current_phase, final_status, feedback, analyst_feedback,
             programmer_feedback, programmer_context_for_retry, outputs>>

\* The locals of main().
localVars == <<rnd, analyst_cycle, programmer_cycle, analyst_approved,
               programmer_approved, clear_idx>>

\* The state of one send_and_wait call and of the files it works on.
waitVars == <<wpc, response_file, archive, agent, status, content, now, start,
              idle_since, result, obs>>

\* The terminal service's side of the terminals' life, and what only the
\* start and the end of a process assign.
extVars == <<_loaded_state_terminals, created_terminal_ids, exit_requested, warned, ending>>

\* What the steps of the main loop never assign.
auxVars == <<resumed, waitVars, call, extVars>>

NoFile == [exists |-> FALSE]
NoCrash == [active |-> FALSE]
NotExited == -1
NoResponse == [exists |-> FALSE]
NoTime == -1
NoResult == [kind |-> "none"]
NoCall == [fn |-> "none"]
NoPrompt == [slot |-> "none"]
NoEnding == [by |-> "none", save |-> "none", signum |-> 0]

\* ------------------------------------------------------------------------
\* Approval gate and condensation (pure functions of the text and cfg).

\* Number of patterns of the role's set that match somewhere in the notes.
EvidenceHits(notes, review_role) ==
    Cardinality(UNION {IF review_role = "analyst"
                       THEN AnalystLineHits(notes[i])
                            \cup (IF i < Len(notes)
                                  THEN AnalystWrapHits(notes[i], notes[i + 1]) ELSE {})
                       ELSE ProgrammerLineHits(notes[i]) : i \in 1..Len(notes)})

\* Fault variant of is_review_approved: the cycle number is not looked at.
is_review_approved_NoMinCycles(review_text, review_cycle, review_role) ==
    IF ~Search(APPROVED_REVIEW_RE, review_text) THEN FALSE
    ELSE IF ~cfg.REQUIRE_REVIEW_EVIDENCE THEN TRUE
    ELSE LET notes == _extract_section(review_text, REVIEW_NOTES_RE, {})
         IN IF Blank(notes) THEN FALSE
            ELSE EvidenceHits(notes, review_role) >= cfg.REVIEW_EVIDENCE_MIN_MATCH

\* Fault variant of is_review_approved: the patterns are searched in the whole text.
is_review_approved_WholeText(review_text, review_cycle, review_role) ==
    IF ~Search(APPROVED_REVIEW_RE, review_text) THEN FALSE
    ELSE IF review_cycle < cfg.MIN_REVIEW_CYCLES_BEFORE_APPROVAL THEN FALSE
    ELSE IF ~cfg.REQUIRE_REVIEW_EVIDENCE THEN TRUE
    ELSE LET notes == _extract_section(review_text, REVIEW_NOTES_RE, {})
         IN IF Blank(notes) THEN FALSE
            ELSE EvidenceHits(review_text, review_role) >= cfg.REVIEW_EVIDENCE_MIN_MATCH

is_review_approved(review_text, review_cycle, review_role) ==
    IF ~Search(APPROVED_REVIEW_RE, review_text) THEN FALSE
    ELSE IF review_cycle < cfg.MIN_REVIEW_CYCLES_BEFORE_APPROVAL THEN FALSE
    ELSE IF ~cfg.REQUIRE_REVIEW_EVIDENCE THEN TRUE
    ELSE LET notes == _extract_section(review_text, REVIEW_NOTES_RE, {})
         IN IF Blank(notes) THEN FALSE
            ELSE EvidenceHits(notes, review_role) >= cfg.REVIEW_EVIDENCE_MIN_MATCH

extract_review_notes(review_text) ==
    IF ~cfg.CONDENSE_REVIEW_FEEDBACK THEN review_text
    ELSE LET condensed == _extract_section(review_text, REVIEW_NOTES_RE, {})
             lines == Take(condensed, cfg.MAX_FEEDBACK_LINES)
         IN IF Blank(lines)
            THEN Join(Take(review_text, cfg.MAX_FEEDBACK_LINES))
            ELSE Join(lines)

extract_test_evidence(test_text) ==
    IF ~cfg.CONDENSE_REVIEW_FEEDBACK THEN test_text
    ELSE LET result_lines == FilterLines(RESULT_LINE_RE, test_text)
             evidence_section == _extract_section(test_text, EVIDENCE_RE, {})
             \* combined = "\n".join(result_lines), then += "\n" + evidence_section
             combined == IF evidence_section = EmptyText THEN result_lines
                         ELSE IF result_lines = <<>> THEN <<"">> \o evidence_section
                         ELSE result_lines \o evidence_section
             lines == Take(combined, cfg.MAX_TEST_EVIDENCE_LINES)
         IN IF Blank(lines)
            THEN Join(Take(test_text, cfg.MAX_TEST_EVIDENCE_LINES))
            ELSE Join(lines)

\* The chunk of one (label, stop) pair, dropped when blank.
SectionChunk(text, label, stop) ==
    LET chunk == _extract_section(text, label, stop)
    IN IF Blank(chunk) THEN <<>> ELSE chunk

\* Fault variant of condense_analyst_for_programmer: no fallback to the head of
\* the raw text when no section is found.
condense_analyst_for_programmer_NoFallback(analyst_out) ==
    IF ~cfg.CONDENSE_CROSS_PHASE THEN analyst_out
    ELSE LET combined == SectionChunk(analyst_out, OPENSPEC_RE, IMPL_NOTES_RE)
                         \o SectionChunk(analyst_out, IMPL_NOTES_RE, RISKS_RE)
                         \o SectionChunk(analyst_out, RISKS_RE, DOWNSTREAM_RE)
         IN Join(Take(combined, cfg.MAX_CROSS_PHASE_LINES))

condense_analyst_for_programmer(analyst_out) ==
    IF ~cfg.CONDENSE_CROSS_PHASE THEN analyst_out
    ELSE LET combined == SectionChunk(analyst_out, OPENSPEC_RE, IMPL_NOTES_RE)
                         \o SectionChunk(analyst_out, IMPL_NOTES_RE, RISKS_RE)
                         \o SectionChunk(analyst_out, RISKS_RE, DOWNSTREAM_RE)
         IN IF combined = <<>>
            THEN Join(Take(analyst_out, cfg.MAX_CROSS_PHASE_LINES))
            ELSE Join(Take(combined, cfg.MAX_CROSS_PHASE_LINES))

condense_programmer_for_tester(programmer_out) ==
    IF ~cfg.CONDENSE_CROSS_PHASE THEN programmer_out
    ELSE LET combined == SectionChunk(programmer_out, FILES_CHANGED_RE, BEHAVIOR_RE)
                         \o SectionChunk(programmer_out, BEHAVIOR_RE, KNOWN_LIMITS_RE)
         IN IF combined = <<>>
            THEN Join(Take(programmer_out, cfg.MAX_CROSS_PHASE_LINES))
            ELSE Join(Take(combined, cfg.MAX_CROSS_PHASE_LINES))

\* ------------------------------------------------------------------------
\* Prompt builders.  A prompt is the record of the variable parts of its text.

\* Fault variant of explore_block_for: one set entry serves every terminal.
explore_block_for_AnyTerminal(terminal_id) ==
    IF cfg.CONDENSE_EXPLORE_ON_REPEAT /\ explore_sent # {}
    THEN "placeholder" ELSE "full"

\* explore_block_for(terminal_id): what the prompt carries ...
explore_block_for(terminal_id) ==
    IF cfg.CONDENSE_EXPLORE_ON_REPEAT /\ terminal_id \in explore_sent
    THEN "placeholder" ELSE "full"

\* ... and its effect on _explore_sent.
ExploreSentAfter(terminal_id) ==
    IF cfg.CONDENSE_EXPLORE_ON_REPEAT /\ terminal_id \in explore_sent
    THEN explore_sent ELSE explore_sent \cup {terminal_id}

Prompt(slot, explore, round_num, cycle, upstream, tester_fb, retry_ctx, peer_fb) ==
    [slot |-> slot, explore |-> explore, round |-> round_num, cycle |-> cycle,
     upstream |-> upstream, tester_feedback |-> tester_fb,
     retry_context |-> retry_ctx, peer_feedback |-> peer_fb]

\* Fault variant of build_analyst_prompt: the tester feedback is left out.
build_analyst_prompt_NoFeedback(round_num, cycle) ==
    Prompt("analyst", explore_block_for(terminal_ids["analyst"]), round_num, cycle,
           EmptyText, NoneYet,
           IF round_num > 1 /\ programmer_context_for_retry # EmptyText
           THEN programmer_context_for_retry ELSE EmptyText,
           analyst_feedback)

build_analyst_prompt(round_num, cycle) ==
    Prompt("analyst", explore_block_for(terminal_ids["analyst"]), round_num, cycle,
           EmptyText, feedback,
           IF round_num > 1 /\ programmer_context_for_retry # EmptyText
           THEN programmer_context_for_retry ELSE EmptyText,
           analyst_feedback)

\* Fault variant of build_analyst_review_prompt: the reviewer gets the condensed analyst output.
build_analyst_review_prompt_Condensed(analyst_out) ==
    Prompt("analyst_review", explore_block_for(terminal_ids["peer_analyst"]), 0, 0,
           condense_analyst_for_programmer(analyst_out), EmptyText, EmptyText, EmptyText)

build_analyst_review_prompt(analyst_out) ==
    Prompt("analyst_review", explore_block_for(terminal_ids["peer_analyst"]), 0, 0,
           analyst_out, EmptyText, EmptyText, EmptyText)

build_programmer_prompt(round_num, cycle, analyst_out) ==
    Prompt("programmer", explore_block_for(terminal_ids["programmer"]), 0, cycle,
           IF cfg.CONDENSE_UPSTREAM_ON_REPEAT /\ cycle > 1
           THEN <<"(Same analyst output as previous cycle -- refer to conversation history.)">>
           ELSE condense_analyst_for_programmer(analyst_out),
           EmptyText, EmptyText, programmer_feedback)

build_programmer_review_prompt(programmer_out) ==
    Prompt("programmer_review", explore_block_for(terminal_ids["peer_programmer"]), 0, 0,
           programmer_out, EmptyText, EmptyText, EmptyText)

build_tester_prompt(programmer_out) ==
    Prompt("tester", "none", 0, 0, condense_programmer_for_tester(programmer_out),
           EmptyText, EmptyText, EmptyText)

\* ------------------------------------------------------------------------
\* The environment: configurations and agent responses.

Configs ==
    [START_AGENT : VALID_AGENT_ROLES,
     MAX_ROUNDS : 0..MaxRoundsBound,
     MAX_REVIEW_CYCLES : 0..MaxCyclesBound,
     MIN_REVIEW_CYCLES_BEFORE_APPROVAL : 1..MinCyclesBound,
     STRICT_FILE_HANDOFF : BOOLEAN,
     REQUIRE_REVIEW_EVIDENCE : {TRUE},
     REVIEW_EVIDENCE_MIN_MATCH : {REVIEW_EVIDENCE_MIN_MATCH_DEFAULT},
     CONDENSE_REVIEW_FEEDBACK : {TRUE},
     CONDENSE_CROSS_PHASE : {TRUE},
     CONDENSE_UPSTREAM_ON_REPEAT : {TRUE},
     CONDENSE_EXPLORE_ON_REPEAT : {TRUE},
     MAX_FEEDBACK_LINES : {FeedbackLinesCfg},
     MAX_TEST_EVIDENCE_LINES : {TestEvidenceLinesCfg},
     MAX_CROSS_PHASE_LINES : {CrossPhaseLinesCfg},
     POLL_SECONDS : {PollSecondsCfg},
     IDLE_GRACE_SECONDS : {IdleGraceCfg},
     RESPONSE_TIMEOUT : {ResponseTimeoutCfg},
     CLEANUP_ON_EXIT : {FALSE}]

AnalystOut ==
    <<"ANALYST_SUMMARY", "- OpenSpec artifacts: proposal.md",
      "- Implementation notes: edit a.py", "- Risks: none", "- Downstream impact: api">>

ProgrammerOut ==
    <<"PROGRAMMER_SUMMARY", "- Files changed: a.py", "- Behavior implemented: x",
      "- Known limitations: none">>

ProgrammerOutPlain == <<"implemented the change", "all good">>

AnalystReviewApproved ==
    <<"REVIEW_RESULT: APPROVED", "REVIEW_NOTES:", "- proposal verified",
      "- P1 traceability confirmed", "- handoff includes 3 steps">>

ProgrammerReviewApproved ==
    <<"REVIEW_RESULT: APPROVED", "REVIEW_NOTES:", "- code change reviewed",
      "- tests run with pytest", "- no open issue">>

\* The marker without enough evidence.
ReviewApprovedThin == <<"REVIEW_RESULT: APPROVED", "REVIEW_NOTES:", "looks fine">>

ReviewRevise == <<"REVIEW_RESULT: REVISE", "REVIEW_NOTES:", "- tests missing", "- scope vague">>

TesterPass == <<"RESULT: PASS", "EVIDENCE:", "- all criteria met">>
TesterFail == <<"RESULT: FAIL", "EVIDENCE:", "- step 2 failed", "- fix the parser">>
TesterNoMarker == <<"tests crashed before any result">>

\* What the terminal shows when no file was written (get_last_output).
LastOutputBlank == <<" ">>

\* The stripped, non-blank contents an agent may write to the response file.
FileResponses(slot) ==
    CASE slot = "analyst" -> {AnalystOut}
      [] slot = "analyst_review" -> {AnalystReviewApproved, ReviewApprovedThin, ReviewRevise}
      [] slot = "programmer" -> {ProgrammerOut, ProgrammerOutPlain}
      [] slot = "programmer_review" -> {ProgrammerReviewApproved, ReviewRevise}
      [] OTHER -> {TesterPass, TesterFail, TesterNoMarker}

\* The values wait_for_response_file can return: the content of the response
\* file or, without STRICT_FILE_HANDOFF, the terminal's last output.
Responses(slot) ==
    FileResponses(slot) \cup (IF cfg.STRICT_FILE_HANDOFF THEN {} ELSE {LastOutputBlank})

\* ------------------------------------------------------------------------
\* State file.

\* The RunState part of what save_state writes.
\* The provider of every role: the top-level provider, no per-role override.
PROVIDER == "codex"

AGENT_CONFIG == [r \in VALID_AGENT_ROLES |-> [provider |-> PROVIDER]]

Snapshot ==
    [exists |-> TRUE,
     current_round |-> current_round,
     current_phase |-> current_phase,
     final_status |-> final_status,
     session_name |-> session_name,
     terminals |-> terminal_ids,
     providers |-> [r \in VALID_AGENT_ROLES |-> AGENT_CONFIG[r].provider],
     feedback |-> feedback,
     analyst_feedback |-> analyst_feedback,
     programmer_feedback |-> programmer_feedback,
     programmer_context_for_retry |-> programmer_context_for_retry,
     outputs |-> outputs]

\* save_state(): to be the last conjunct of an action, after the primed
\* values of the RunState.
save_state == state_file' = Snapshot'

NoOutputs == [s \in Slots |-> EmptyText]

HistInit ==
    [tester_dispatches |-> 0,   \* send_and_wait calls for the tester in this process
     pass_primary |-> 0,        \* primary dispatches in the current pass of a review phase
     pass_review |-> 0,         \* peer review dispatches in the current pass
     primary_cycle |-> 0,       \* the cycle of the last primary dispatch of the pass
     gate_cycle |-> 0,          \* the last cycle whose approval gate was evaluated
     tester_text |-> EmptyText] \* the tester's response of the round before, until the
                                \* round's programmer loop is entered

\* ------------------------------------------------------------------------
\* Initial state: the module globals after import and _apply_config.

\* The module globals and main()'s locals of a process that has just started.
InitGlobals ==
    /\ exit_code = NotExited
    /\ session_name = ""
    /\ terminal_ids = [r \in VALID_AGENT_ROLES |-> ""]
    /\ current_round = 1
    /\ current_phase = PHASE_ANALYST
    /\ final_status = "RUNNING"
    /\ feedback = NoneYet
    /\ analyst_feedback = NoneYet
    /\ programmer_feedback = NoneYet
    /\ programmer_context_for_retry = EmptyText
    /\ outputs = NoOutputs
    /\ start_at_peer = FALSE
    /\ explore_sent = {}
    /\ rnd = 0
    /\ analyst_cycle = 0
    /\ programmer_cycle = 0
    /\ analyst_approved = FALSE
    /\ programmer_approved = FALSE
    /\ clear_idx = 0
    /\ in_flight = {}
    /\ last_prompt = NoPrompt
    /\ last_response = [slot |-> "none", text |-> EmptyText]
    /\ hist = HistInit
    /\ resumed = FALSE
    /\ crash = NoCrash
    /\ _loaded_state_terminals = [r \in VALID_AGENT_ROLES |-> ""]
    /\ created_terminal_ids = <<>>
    /\ exit_requested = {}
    /\ warned = {}
    /\ ending = NoEnding

InitMain == pc = "main" /\ state_file = NoFile /\ InitGlobals

\* No send_and_wait call is followed poll by poll.
WaitOff ==
    /\ wpc = "off"
    /\ response_file = NoResponse
    /\ archive = <<>>
    /\ agent = [handle |-> 0, next_id |-> 0]
    /\ status = "none"
    /\ content = EmptyText
    /\ now = 0
    /\ start = 0
    /\ idle_since = NoTime
    /\ result = NoResult
    /\ obs = [quiet_from |-> NoTime, polled_at |-> 0, was_reset |-> FALSE]

Init == cfg \in Configs /\ InitMain /\ WaitOff /\ call = NoCall

\* ------------------------------------------------------------------------
\* send_and_wait, in its two halves.

\* clear_stale_response(role); api.send_input(terminal_id, message)
Send(slot, prompt) ==
    /\ in_flight' = in_flight \cup {slot}
    /\ last_prompt' = prompt
    /\ explore_sent' = IF prompt.explore = "none" THEN explore_sent
                       ELSE ExploreSentAfter(terminal_ids[SlotRole[slot]])

\* wait_for_response_file(role, terminal_id) returning text
Receive(slot, text) ==
    /\ slot \in in_flight
    /\ in_flight' = in_flight \ {slot}
    /\ last_response' = [slot |-> slot, text |-> text]
    /\ outputs' = [outputs EXCEPT ![slot] = text]

\* wait_for_response_file raising (terminal in ERROR state, the strict
\* file-missing error, TimeoutError, an HTTP error): the exception leaves
\* main() and reaches the handler of __main__.
\* The terminals bound to a role.
BoundTerminals == {terminal_ids[r] : r \in VALID_AGENT_ROLES} \ {""}

\* cleanup() after its save: api.exit_terminal(tid) for every bound terminal
\* if CLEANUP_ON_EXIT, nothing otherwise. save: what became of cleanup()'s
\* save_state, "none" for cleanup(_save=False).
cleanup(by, save, signum) ==
    /\ exit_requested' = IF cfg.CLEANUP_ON_EXIT THEN exit_requested \cup BoundTerminals
                         ELSE exit_requested
    /\ ending' = [by |-> by, save |-> save, signum |-> signum]

WaitRaises(slot) ==
    /\ pc \in {"a_wait", "ar_wait", "p_wait", "pr_wait", "t_wait"}
    /\ slot \in in_flight
    /\ pc' = "fatal"
    /\ UNCHANGED <<cfg, auxVars, crash, exit_code, session_name, terminal_ids, runVars, start_at_peer,
                   explore_sent, localVars, state_file, in_flight, last_prompt,
                   last_response, hist>>

\* ------------------------------------------------------------------------
\* main(): initialisation.

\* init_new_run() after the terminals: the RunState of a fresh run, the
\* placeholders of the phases START_AGENT skips, _start_at_peer.
InitRunState ==
    /\ current_round' = 1
    /\ current_phase' = _ROLE_PHASE_MAP[cfg.START_AGENT]
    /\ final_status' = "RUNNING"
    /\ feedback' = NoneYet
    /\ analyst_feedback' = NoneYet
    /\ programmer_feedback' = NoneYet
    /\ programmer_context_for_retry' = EmptyText
    /\ outputs' = [s \in Slots |->
                    IF \/ s = "analyst" /\ cfg.START_AGENT # "analyst"
                       \/ s = "programmer" /\ cfg.START_AGENT \in {"peer_programmer", "tester"}
                    THEN _UPSTREAM_PLACEHOLDER ELSE EmptyText]
    /\ start_at_peer' = (cfg.START_AGENT \in {"peer_analyst", "peer_programmer"})

\* init_new_run(), every terminal created.
init_new_run ==
    /\ pc = "main"
    /\ pc' = "check_done"
    /\ session_name' = "cao-session"
    /\ terminal_ids' = [r \in VALID_AGENT_ROLES |-> "term-" \o r]
    /\ InitRunState
    /\ UNCHANGED <<cfg, auxVars, crash, exit_code, explore_sent, localVars, in_flight, last_prompt,
                   last_response, hist>>
    /\ save_state

\* if current_phase == PHASE_DONE: ... (not taken)
CheckDone ==
    /\ pc = "check_done"
    /\ current_phase # PHASE_DONE
    /\ pc' = "while"
    /\ UNCHANGED <<cfg, auxVars, crash, exit_code, session_name, terminal_ids, runVars, start_at_peer,
                   explore_sent, localVars, state_file, in_flight, last_prompt,
                   last_response, hist>>

\* Fault variant of WhileTest: the loop test is current_round < MAX_ROUNDS.
WhileTest_Strict ==
    /\ pc = "while"
    /\ IF current_round < cfg.MAX_ROUNDS
       THEN pc' = "analyst_if" /\ rnd' = current_round
       ELSE pc' = "exhausted" /\ rnd' = rnd
    /\ UNCHANGED <<cfg, auxVars, crash, exit_code, session_name, terminal_ids, runVars, start_at_peer,
                   explore_sent, analyst_cycle, programmer_cycle, analyst_approved,
                   programmer_approved, clear_idx, state_file, in_flight, last_prompt,
                   last_response, hist>>

\* Fault variant of WhileTest: the loop test is current_round <= MAX_ROUNDS + 1.
WhileTest_Loose ==
    /\ pc = "while"
    /\ IF current_round <= cfg.MAX_ROUNDS + 1
       THEN pc' = "analyst_if" /\ rnd' = current_round
       ELSE pc' = "exhausted" /\ rnd' = rnd
    /\ UNCHANGED <<cfg, auxVars, crash, exit_code, session_name, terminal_ids, runVars, start_at_peer,
                   explore_sent, analyst_cycle, programmer_cycle, analyst_approved,
                   programmer_approved, clear_idx, state_file, in_flight, last_prompt,
                   last_response, hist>>

\* while current_round <= MAX_ROUNDS: rnd = current_round
WhileTest ==
    /\ pc = "while"
    /\ IF current_round <= cfg.MAX_ROUNDS
       THEN pc' = "analyst_if" /\ rnd' = current_round
       ELSE pc' = "exhausted" /\ rnd' = rnd
    /\ UNCHANGED <<cfg, auxVars, crash, exit_code, session_name, terminal_ids, runVars, start_at_peer,
                   explore_sent, analyst_cycle, programmer_cycle, analyst_approved,
                   programmer_approved, clear_idx, state_file, in_flight, last_prompt,
                   last_response, hist>>

\* ------------------------------------------------------------------------
\* main(): ANALYST phase.

\* if current_phase == PHASE_ANALYST: normalise, clear the slots, save
AnalystEnter ==
    /\ pc = "analyst_if"
    /\ current_phase = PHASE_ANALYST
    /\ pc' = "a_for"
    /\ analyst_feedback' = IF Blank(analyst_feedback) THEN NoneYet ELSE analyst_feedback
    /\ outputs' = [outputs EXCEPT !["analyst"] = IF start_at_peer THEN @ ELSE EmptyText,
                                  !["analyst_review"] = EmptyText]
    /\ analyst_approved' = FALSE
    /\ analyst_cycle' = 0
    /\ hist' = [hist EXCEPT !.pass_primary = 0, !.pass_review = 0,
                            !.primary_cycle = 0, !.gate_cycle = 0]
    /\ UNCHANGED <<cfg, auxVars, crash, exit_code, session_name, terminal_ids, current_round,
                   current_phase, final_status, feedback, programmer_feedback,
                   programmer_context_for_retry, start_at_peer, explore_sent, rnd,
                   programmer_cycle, programmer_approved, clear_idx, in_flight,
                   last_prompt, last_response>>
    /\ save_state

\* the phase is not ANALYST: the block is skipped
AnalystSkip ==
    /\ pc = "analyst_if"
    /\ current_phase # PHASE_ANALYST
    /\ pc' = "programmer_if"
    /\ UNCHANGED <<cfg, auxVars, crash, exit_code, session_name, terminal_ids, runVars, start_at_peer,
                   explore_sent, localVars, state_file, in_flight, last_prompt,
                   last_response, hist>>

\* Fault variant of AnalystFor: the loop runs MAX_REVIEW_CYCLES + 1 times.
AnalystFor_OneMore ==
    /\ pc = "a_for"
    /\ IF analyst_cycle <= cfg.MAX_REVIEW_CYCLES
       THEN pc' = "a_primary" /\ analyst_cycle' = analyst_cycle + 1
       ELSE pc' = "a_after" /\ analyst_cycle' = 0
    /\ UNCHANGED <<cfg, auxVars, crash, exit_code, session_name, terminal_ids, runVars, start_at_peer,
                   explore_sent, rnd, programmer_cycle, analyst_approved,
                   programmer_approved, clear_idx, state_file, in_flight, last_prompt,
                   last_response, hist>>

\* for analyst_cycle in range(1, MAX_REVIEW_CYCLES + 1)
AnalystFor ==
    /\ pc = "a_for"
    /\ IF analyst_cycle < cfg.MAX_REVIEW_CYCLES
       THEN pc' = "a_primary" /\ analyst_cycle' = analyst_cycle + 1
       ELSE pc' = "a_after" /\ analyst_cycle' = 0
    /\ UNCHANGED <<cfg, auxVars, crash, exit_code, session_name, terminal_ids, runVars, start_at_peer,
                   explore_sent, rnd, programmer_cycle, analyst_approved,
                   programmer_approved, clear_idx, state_file, in_flight, last_prompt,
                   last_response, hist>>

\* Fault variant of AnalystSkipPrimary: _start_at_peer is not reset.
AnalystSkipPrimary_KeepsFlag ==
    /\ pc = "a_primary"
    /\ start_at_peer
    /\ pc' = "a_review"
    /\ UNCHANGED <<cfg, auxVars, crash, exit_code, session_name, terminal_ids, runVars, explore_sent,
                   localVars, state_file, in_flight, last_prompt, last_response, hist,
                   start_at_peer>>

\* if _start_at_peer: skip the analyst dispatch of this cycle
AnalystSkipPrimary ==
    /\ pc = "a_primary"
    /\ start_at_peer
    /\ start_at_peer' = FALSE
    /\ pc' = "a_review"
    /\ UNCHANGED <<cfg, auxVars, crash, exit_code, session_name, terminal_ids, runVars, explore_sent,
                   localVars, state_file, in_flight, last_prompt, last_response, hist>>

\* msg = build_analyst_prompt(rnd, analyst_cycle); send_and_wait: the send
AnalystSend ==
    /\ pc = "a_primary"
    /\ ~start_at_peer
    /\ pc' = "a_wait"
    /\ Send("analyst", build_analyst_prompt(rnd, analyst_cycle))
    /\ hist' = [hist EXCEPT !.pass_primary = @ + 1, !.primary_cycle = analyst_cycle]
    /\ UNCHANGED <<cfg, auxVars, crash, exit_code, session_name, terminal_ids, runVars, start_at_peer,
                   localVars, state_file, last_response>>

\* outputs["analyst"] = send_and_wait(...): the response
AnalystReceive ==
    /\ pc = "a_wait"
    /\ pc' = "a_save"
    /\ \E text \in Responses("analyst") : Receive("analyst", text)
    /\ UNCHANGED <<cfg, auxVars, crash, exit_code, session_name, terminal_ids, current_round,
                   current_phase, final_status, feedback, analyst_feedback,
                   programmer_feedback, programmer_context_for_retry, start_at_peer,
                   explore_sent, localVars, state_file, last_prompt, hist>>

\* Fault variant of AnalystSave: the analyst's output is not saved.
AnalystSave_Skipped ==
    /\ pc = "a_save"
    /\ pc' = "a_review"
    /\ UNCHANGED <<cfg, auxVars, crash, exit_code, session_name, terminal_ids, runVars, start_at_peer,
                   explore_sent, localVars, state_file, in_flight, last_prompt,
                   last_response, hist>>

\* outputs["analyst"] = ...; save_state()
AnalystSave ==
    /\ pc = "a_save"
    /\ pc' = "a_review"
    /\ UNCHANGED <<cfg, auxVars, crash, exit_code, session_name, terminal_ids, runVars, start_at_peer,
                   explore_sent, localVars, in_flight, last_prompt, last_response, hist>>
    /\ save_state

\* review_msg = build_analyst_review_prompt(outputs["analyst"]); the send
AnalystReviewSend ==
    /\ pc = "a_review"
    /\ pc' = "ar_wait"
    /\ Send("analyst_review", build_analyst_review_prompt(outputs["analyst"]))
    /\ hist' = [hist EXCEPT !.pass_review = @ + 1]
    /\ UNCHANGED <<cfg, auxVars, crash, exit_code, session_name, terminal_ids, runVars, start_at_peer,
                   localVars, state_file, last_response>>

AnalystReviewReceive ==
    /\ pc = "ar_wait"
    /\ pc' = "ar_save"
    /\ \E text \in Responses("analyst_review") : Receive("analyst_review", text)
    /\ UNCHANGED <<cfg, auxVars, crash, exit_code, session_name, terminal_ids, current_round,
                   current_phase, final_status, feedback, analyst_feedback,
                   programmer_feedback, programmer_context_for_retry, start_at_peer,
                   explore_sent, localVars, state_file, last_prompt, hist>>

AnalystReviewSave ==
    /\ pc = "ar_save"
    /\ pc' = "a_gate"
    /\ UNCHANGED <<cfg, auxVars, crash, exit_code, session_name, terminal_ids, runVars, start_at_peer,
                   explore_sent, localVars, in_flight, last_prompt, last_response, hist>>
    /\ save_state

\* if is_review_approved(...): approved, break; else REVISE and next cycle
AnalystGate ==
    /\ pc = "a_gate"
    /\ IF is_review_approved(outputs["analyst_review"], analyst_cycle, "analyst")
       THEN /\ analyst_approved' = TRUE
            /\ analyst_feedback' = NoneYet
            /\ analyst_cycle' = 0
            /\ pc' = "a_after"
       ELSE /\ analyst_approved' = analyst_approved
            /\ analyst_feedback' = extract_review_notes(outputs["analyst_review"])
            /\ analyst_cycle' = analyst_cycle
            /\ pc' = "a_for"
    /\ hist' = [hist EXCEPT !.gate_cycle = analyst_cycle]
    /\ UNCHANGED <<cfg, auxVars, crash, exit_code, session_name, terminal_ids, current_round,
                   current_phase, final_status, feedback, programmer_feedback,
                   programmer_context_for_retry, outputs, start_at_peer, explore_sent,
                   rnd, programmer_cycle, programmer_approved, clear_idx, in_flight,
                   last_prompt, last_response>>
    /\ save_state

\* Fault variant of AnalystAfterLoop: an unapproved pass raises instead of going on.
AnalystAfterLoop_Raises ==
    /\ pc = "a_after"
    /\ pc' = IF analyst_approved THEN "a_leave" ELSE "fatal"
    /\ UNCHANGED <<cfg, auxVars, crash, exit_code, session_name, terminal_ids, current_round,
                   current_phase, final_status, analyst_feedback, programmer_feedback,
                   programmer_context_for_retry, outputs, start_at_peer, explore_sent,
                   localVars, in_flight, last_prompt, last_response, hist>>
    /\ IF ~analyst_approved
       THEN /\ feedback' = <<ANALYST_GATE_NOTICE>> \o extract_review_notes(outputs["analyst_review"])
            /\ save_state
       ELSE UNCHANGED <<feedback, state_file>>

\* if not analyst_approved: feedback = notice + latest review notes; save
AnalystAfterLoop ==
    /\ pc = "a_after"
    /\ pc' = "a_leave"
    /\ UNCHANGED <<cfg, auxVars, crash, exit_code, session_name, terminal_ids, current_round,
                   current_phase, final_status, analyst_feedback, programmer_feedback,
                   programmer_context_for_retry, outputs, start_at_peer, explore_sent,
                   localVars, in_flight, last_prompt, last_response, hist>>
    /\ IF ~analyst_approved
       THEN /\ feedback' = <<ANALYST_GATE_NOTICE>> \o extract_review_notes(outputs["analyst_review"])
            /\ save_state
       ELSE UNCHANGED <<feedback, state_file>>

\* current_phase = PHASE_PROGRAMMER; normalise programmer_feedback; save
AnalystLeave ==
    /\ pc = "a_leave"
    /\ pc' = "programmer_if"
    /\ crash' = NoCrash
    /\ current_phase' = PHASE_PROGRAMMER
    /\ programmer_feedback' = IF Blank(programmer_feedback) THEN NoneYet
                              ELSE programmer_feedback
    /\ hist' = [hist EXCEPT !.pass_primary = 0, !.pass_review = 0,
                            !.primary_cycle = 0, !.gate_cycle = 0]
    /\ UNCHANGED <<cfg, auxVars, exit_code, session_name, terminal_ids, current_round,
                   final_status, feedback, analyst_feedback,
                   programmer_context_for_retry, outputs, start_at_peer, explore_sent,
                   localVars, in_flight, last_prompt, last_response>>
    /\ save_state

\* ------------------------------------------------------------------------
\* main(): PROGRAMMER phase.

\* missing analyst output: fall back to the analyst phase, save, continue
ProgrammerRollback ==
    /\ pc = "programmer_if"
    /\ current_phase = PHASE_PROGRAMMER
    /\ Blank(outputs["analyst"])
    /\ pc' = "while"
    /\ crash' = NoCrash
    /\ current_phase' = PHASE_ANALYST
    /\ UNCHANGED <<cfg, auxVars, exit_code, session_name, terminal_ids, current_round,
                   final_status, feedback, analyst_feedback, programmer_feedback,
                   programmer_context_for_retry, outputs, start_at_peer, explore_sent,
                   localVars, in_flight, last_prompt, last_response, hist>>
    /\ save_state

ProgrammerEnter ==
    /\ pc = "programmer_if"
    /\ current_phase = PHASE_PROGRAMMER
    /\ ~Blank(outputs["analyst"])
    /\ pc' = "p_for"
    /\ programmer_feedback' = IF Blank(programmer_feedback) THEN NoneYet
                              ELSE programmer_feedback
    /\ outputs' = [outputs EXCEPT !["programmer"] = IF start_at_peer THEN @ ELSE EmptyText,
                                  !["programmer_review"] = EmptyText]
    /\ programmer_approved' = FALSE
    /\ programmer_cycle' = 0
    /\ hist' = [hist EXCEPT !.pass_primary = 0, !.pass_review = 0,
                            !.primary_cycle = 0, !.gate_cycle = 0,
                            !.tester_text = EmptyText]
    /\ UNCHANGED <<cfg, auxVars, crash, exit_code, session_name, terminal_ids, current_round,
                   current_phase, final_status, feedback, analyst_feedback,
                   programmer_context_for_retry, start_at_peer, explore_sent, rnd,
                   analyst_cycle, analyst_approved, clear_idx, in_flight,
                   last_prompt, last_response>>
    /\ save_state

ProgrammerSkip ==
    /\ pc = "programmer_if"
    /\ current_phase # PHASE_PROGRAMMER
    /\ pc' = "tester_if"
    /\ UNCHANGED <<cfg, auxVars, crash, exit_code, session_name, terminal_ids, runVars, start_at_peer,
                   explore_sent, localVars, state_file, in_flight, last_prompt,
                   last_response, hist>>

\* for programmer_cycle in range(1, MAX_REVIEW_CYCLES + 1)
ProgrammerFor ==
    /\ pc = "p_for"
    /\ IF programmer_cycle < cfg.MAX_REVIEW_CYCLES
       THEN pc' = "p_primary" /\ programmer_cycle' = programmer_cycle + 1
       ELSE pc' = "p_after" /\ programmer_cycle' = 0
    /\ UNCHANGED <<cfg, auxVars, crash, exit_code, session_name, terminal_ids, runVars, start_at_peer,
                   explore_sent, rnd, analyst_cycle, analyst_approved,
                   programmer_approved, clear_idx, state_file, in_flight, last_prompt,
                   last_response, hist>>

ProgrammerSkipPrimary ==
    /\ pc = "p_primary"
    /\ start_at_peer
    /\ start_at_peer' = FALSE
    /\ pc' = "p_review"
    /\ UNCHANGED <<cfg, auxVars, crash, exit_code, session_name, terminal_ids, runVars, explore_sent,
                   localVars, state_file, in_flight, last_prompt, last_response, hist>>

ProgrammerSend ==
    /\ pc = "p_primary"
    /\ ~start_at_peer
    /\ pc' = "p_wait"
    /\ Send("programmer", build_programmer_prompt(rnd, programmer_cycle, outputs["analyst"]))
    /\ hist' = [hist EXCEPT !.pass_primary = @ + 1, !.primary_cycle = programmer_cycle]
    /\ UNCHANGED <<cfg, auxVars, crash, exit_code, session_name, terminal_ids, runVars, start_at_peer,
                   localVars, state_file, last_response>>

ProgrammerReceive ==
    /\ pc = "p_wait"
    /\ pc' = "p_save"
    /\ \E text \in Responses("programmer") : Receive("programmer", text)
    /\ UNCHANGED <<cfg, auxVars, crash, exit_code, session_name, terminal_ids, current_round,
                   current_phase, final_status, feedback, analyst_feedback,
                   programmer_feedback, programmer_context_for_retry, start_at_peer,
                   explore_sent, localVars, state_file, last_prompt, hist>>

ProgrammerSave ==
    /\ pc = "p_save"
    /\ pc' = "p_review"
    /\ UNCHANGED <<cfg, auxVars, crash, exit_code, session_name, terminal_ids, runVars, start_at_peer,
                   explore_sent, localVars, in_flight, last_prompt, last_response, hist>>
    /\ save_state

ProgrammerReviewSend ==
    /\ pc = "p_review"
    /\ pc' = "pr_wait"
    /\ Send("programmer_review", build_programmer_review_prompt(outputs["programmer"]))
    /\ hist' = [hist EXCEPT !.pass_review = @ + 1]
    /\ UNCHANGED <<cfg, auxVars, crash, exit_code, session_name, terminal_ids, runVars, start_at_peer,
                   localVars, state_file, last_response>>

ProgrammerReviewReceive ==
    /\ pc = "pr_wait"
    /\ pc' = "pr_save"
    /\ \E text \in Responses("programmer_review") : Receive("programmer_review", text)
    /\ UNCHANGED <<cfg, auxVars, crash, exit_code, session_name, terminal_ids, current_round,
                   current_phase, final_status, feedback, analyst_feedback,
                   programmer_feedback, programmer_context_for_retry, start_at_peer,
                   explore_sent, localVars, state_file, last_prompt, hist>>

ProgrammerReviewSave ==
    /\ pc = "pr_save"
    /\ pc' = "p_gate"
    /\ UNCHANGED <<cfg, auxVars, crash, exit_code, session_name, terminal_ids, runVars, start_at_peer,
                   explore_sent, localVars, in_flight, last_prompt, last_response, hist>>
    /\ save_state

ProgrammerGate ==
    /\ pc = "p_gate"
    /\ IF is_review_approved(outputs["programmer_review"], programmer_cycle, "programmer")
       THEN /\ programmer_approved' = TRUE
            /\ programmer_feedback' = NoneYet
            /\ programmer_cycle' = 0
            /\ pc' = "p_after"
       ELSE /\ programmer_approved' = programmer_approved
            /\ programmer_feedback' = extract_review_notes(outputs["programmer_review"])
            /\ programmer_cycle' = programmer_cycle
            /\ pc' = "p_for"
    /\ hist' = [hist EXCEPT !.gate_cycle = programmer_cycle]
    /\ UNCHANGED <<cfg, auxVars, crash, exit_code, session_name, terminal_ids, current_round,
                   current_phase, final_status, feedback, analyst_feedback,
                   programmer_context_for_retry, outputs, start_at_peer, explore_sent,
                   rnd, analyst_cycle, analyst_approved, clear_idx, in_flight,
                   last_prompt, last_response>>
    /\ save_state

ProgrammerAfterLoop ==
    /\ pc = "p_after"
    /\ pc' = "p_leave"
    /\ UNCHANGED <<cfg, auxVars, crash, exit_code, session_name, terminal_ids, current_round,
                   current_phase, final_status, analyst_feedback, programmer_feedback,
                   programmer_context_for_retry, outputs, start_at_peer, explore_sent,
                   localVars, in_flight, last_prompt, last_response, hist>>
    /\ IF ~programmer_approved
       THEN /\ feedback' = <<PROGRAMMER_GATE_NOTICE>>
                           \o extract_review_notes(outputs["programmer_review"])
            /\ save_state
       ELSE UNCHANGED <<feedback, state_file>>

\* current_phase = PHASE_TESTER; save
ProgrammerLeave ==
    /\ pc = "p_leave"
    /\ pc' = "tester_if"
    /\ crash' = NoCrash
    /\ current_phase' = PHASE_TESTER
    /\ hist' = [hist EXCEPT !.pass_primary = 0, !.pass_review = 0,
                            !.primary_cycle = 0, !.gate_cycle = 0]
    /\ UNCHANGED <<cfg, auxVars, exit_code, session_name, terminal_ids, current_round,
                   final_status, feedback, analyst_feedback, programmer_feedback,
                   programmer_context_for_retry, outputs, start_at_peer, explore_sent,
                   localVars, in_flight, last_prompt, last_response>>
    /\ save_state

\* ------------------------------------------------------------------------
\* main(): TESTER phase.  Inside the loop the phase is ANALYST, PROGRAMMER or
\* TESTER, and the two blocks above leave it TESTER or jump back to the loop
\* test, so the phase is TESTER here.

\* missing programmer output: fall back to the programmer phase, save, continue
TesterRollback ==
    /\ pc = "tester_if"
    /\ current_phase = PHASE_TESTER
    /\ Blank(outputs["programmer"])
    /\ pc' = "while"
    /\ crash' = NoCrash
    /\ current_phase' = PHASE_PROGRAMMER
    /\ UNCHANGED <<cfg, auxVars, exit_code, session_name, terminal_ids, current_round,
                   final_status, feedback, analyst_feedback, programmer_feedback,
                   programmer_context_for_retry, outputs, start_at_peer, explore_sent,
                   localVars, in_flight, last_prompt, last_response, hist>>
    /\ save_state

\* msg = build_tester_prompt(outputs["programmer"]); send_and_wait: the send
TesterSend ==
    /\ pc = "tester_if"
    /\ current_phase = PHASE_TESTER
    /\ ~Blank(outputs["programmer"])
    /\ pc' = "t_wait"
    /\ Send("tester", build_tester_prompt(outputs["programmer"]))
    /\ hist' = [hist EXCEPT !.tester_dispatches = @ + 1]
    /\ UNCHANGED <<cfg, auxVars, crash, exit_code, session_name, terminal_ids, runVars, start_at_peer,
                   localVars, state_file, last_response>>

TesterReceive ==
    /\ pc = "t_wait"
    /\ pc' = "t_save"
    /\ \E text \in Responses("tester") : Receive("tester", text)
    /\ UNCHANGED <<cfg, auxVars, crash, exit_code, session_name, terminal_ids, current_round,
                   current_phase, final_status, feedback, analyst_feedback,
                   programmer_feedback, programmer_context_for_retry, start_at_peer,
                   explore_sent, localVars, state_file, last_prompt, hist>>

TesterSave ==
    /\ pc = "t_save"
    /\ pc' = "t_result"
    /\ crash' = NoCrash
    /\ UNCHANGED <<cfg, auxVars, exit_code, session_name, terminal_ids, runVars, start_at_peer,
                   explore_sent, localVars, in_flight, last_prompt, last_response, hist>>
    /\ save_state

\* if PASS_RESULT_RE.search(outputs["tester"]): current_phase = PHASE_DONE
TesterPassPhase ==
    /\ pc = "t_result"
    /\ Search(PASS_RESULT_RE, outputs["tester"])
    /\ pc' = "t_pass_status"
    /\ current_phase' = PHASE_DONE
    /\ UNCHANGED <<cfg, auxVars, crash, exit_code, session_name, terminal_ids, current_round,
                   final_status, feedback, analyst_feedback, programmer_feedback,
                   programmer_context_for_retry, outputs, start_at_peer, explore_sent,
                   localVars, state_file, in_flight, last_prompt, last_response, hist>>

\* final_status = "PASS"
TesterPassStatus ==
    /\ pc = "t_pass_status"
    /\ pc' = "t_pass_save"
    /\ final_status' = "PASS"
    /\ UNCHANGED <<cfg, auxVars, crash, exit_code, session_name, terminal_ids, current_round,
                   current_phase, feedback, analyst_feedback, programmer_feedback,
                   programmer_context_for_retry, outputs, start_at_peer, explore_sent,
                   localVars, state_file, in_flight, last_prompt, last_response, hist>>

\* Fault variant of TesterPassSave: the final save_state() is missing.
TesterPassSave_Skipped ==
    /\ pc = "t_pass_save"
    /\ pc' = "t_pass_exit"
    /\ UNCHANGED <<cfg, auxVars, crash, exit_code, session_name, terminal_ids, runVars, start_at_peer,
                   explore_sent, localVars, in_flight, last_prompt, last_response, hist>>
    /\ UNCHANGED state_file

TesterPassSave ==
    /\ pc = "t_pass_save"
    /\ pc' = "t_pass_exit"
    /\ UNCHANGED <<cfg, auxVars, crash, exit_code, session_name, terminal_ids, runVars, start_at_peer,
                   explore_sent, localVars, in_flight, last_prompt, last_response, hist>>
    /\ save_state

\* cleanup(_save=False); sys.exit(0)
TesterPassExit ==
    /\ pc = "t_pass_exit"
    /\ pc' = "exited"
    /\ exit_code' = 0
    /\ cleanup("normal", "none", 0)
    /\ UNCHANGED <<cfg, resumed, waitVars, call, _loaded_state_terminals, created_terminal_ids, warned, crash, session_name, terminal_ids, runVars, start_at_peer,
                   explore_sent, localVars, state_file, in_flight, last_prompt,
                   last_response, hist>>

\* no PASS marker: feedback = extract_test_evidence(outputs["tester"])
TesterFailFeedback ==
    /\ pc = "t_result"
    /\ ~Search(PASS_RESULT_RE, outputs["tester"])
    /\ pc' = "t_fail_context"
    /\ feedback' = extract_test_evidence(outputs["tester"])
    /\ UNCHANGED <<cfg, auxVars, crash, exit_code, session_name, terminal_ids, current_round,
                   current_phase, final_status, analyst_feedback, programmer_feedback,
                   programmer_context_for_retry, outputs, start_at_peer, explore_sent,
                   localVars, state_file, in_flight, last_prompt, last_response, hist>>

\* Fault variant of TesterFailContext: the programmer output is kept uncondensed.
TesterFailContext_Raw ==
    /\ pc = "t_fail_context"
    /\ pc' = "t_fail_round"
    /\ programmer_context_for_retry' = outputs["programmer"]
    /\ UNCHANGED <<cfg, auxVars, crash, exit_code, session_name, terminal_ids, current_round,
                   current_phase, final_status, feedback, analyst_feedback,
                   programmer_feedback, outputs, start_at_peer, explore_sent,
                   localVars, state_file, in_flight, last_prompt, last_response, hist>>

\* programmer_context_for_retry = condense_programmer_for_tester(outputs["programmer"])
TesterFailContext ==
    /\ pc = "t_fail_context"
    /\ pc' = "t_fail_round"
    /\ programmer_context_for_retry' = condense_programmer_for_tester(outputs["programmer"])
    /\ UNCHANGED <<cfg, auxVars, crash, exit_code, session_name, terminal_ids, current_round,
                   current_phase, final_status, feedback, analyst_feedback,
                   programmer_feedback, outputs, start_at_peer, explore_sent,
                   localVars, state_file, in_flight, last_prompt, last_response, hist>>

\* Fault variant of TesterFailRound: the failed round is not counted.
TesterFailRound_KeepsRound ==
    /\ pc = "t_fail_round"
    /\ pc' = "t_fail_phase"
    /\ current_round' = current_round
    /\ hist' = [hist EXCEPT !.tester_text = outputs["tester"]]
    /\ UNCHANGED <<cfg, auxVars, crash, exit_code, session_name, terminal_ids, current_phase,
                   final_status, feedback, analyst_feedback, programmer_feedback,
                   programmer_context_for_retry, outputs, start_at_peer, explore_sent,
                   localVars, state_file, in_flight, last_prompt, last_response>>

\* current_round += 1
TesterFailRound ==
    /\ pc = "t_fail_round"
    /\ pc' = "t_fail_phase"
    /\ current_round' = current_round + 1
    /\ hist' = [hist EXCEPT !.tester_text = outputs["tester"]]
    /\ UNCHANGED <<cfg, auxVars, crash, exit_code, session_name, terminal_ids, current_phase,
                   final_status, feedback, analyst_feedback, programmer_feedback,
                   programmer_context_for_retry, outputs, start_at_peer, explore_sent,
                   localVars, state_file, in_flight, last_prompt, last_response>>

\* current_phase = PHASE_ANALYST
TesterFailPhase ==
    /\ pc = "t_fail_phase"
    /\ pc' = "t_fail_feedbacks"
    /\ current_phase' = PHASE_ANALYST
    /\ UNCHANGED <<cfg, auxVars, crash, exit_code, session_name, terminal_ids, current_round,
                   final_status, feedback, analyst_feedback, programmer_feedback,
                   programmer_context_for_retry, outputs, start_at_peer, explore_sent,
                   localVars, state_file, in_flight, last_prompt, last_response, hist>>

\* analyst_feedback = "None yet."; programmer_feedback = "None yet."
TesterFailFeedbacks ==
    /\ pc = "t_fail_feedbacks"
    /\ pc' = "t_fail_clear"
    /\ analyst_feedback' = NoneYet
    /\ programmer_feedback' = NoneYet
    /\ clear_idx' = 1
    /\ UNCHANGED <<cfg, auxVars, crash, exit_code, session_name, terminal_ids, current_round,
                   current_phase, final_status, feedback,
                   programmer_context_for_retry, outputs, start_at_peer, explore_sent,
                   rnd, analyst_cycle, programmer_cycle, analyst_approved,
                   programmer_approved, state_file, in_flight, last_prompt,
                   last_response, hist>>

\* for key in outputs: outputs[key] = ""   (one key per step)
TesterFailClear ==
    /\ pc = "t_fail_clear"
    /\ outputs' = [outputs EXCEPT ![SlotOrder[clear_idx]] = EmptyText]
    /\ IF clear_idx < Len(SlotOrder)
       THEN pc' = "t_fail_clear" /\ clear_idx' = clear_idx + 1
       ELSE pc' = "t_fail_save" /\ clear_idx' = 0
    /\ UNCHANGED <<cfg, auxVars, crash, exit_code, session_name, terminal_ids, current_round,
                   current_phase, final_status, feedback, analyst_feedback,
                   programmer_feedback, programmer_context_for_retry, start_at_peer,
                   explore_sent, rnd, analyst_cycle, programmer_cycle,
                   analyst_approved, programmer_approved, state_file, in_flight,
                   last_prompt, last_response, hist>>

\* save_state(), then back to the loop test
TesterFailSave ==
    /\ pc = "t_fail_save"
    /\ pc' = "while"
    /\ UNCHANGED <<cfg, auxVars, crash, exit_code, session_name, terminal_ids, runVars, start_at_peer,
                   explore_sent, localVars, in_flight, last_prompt, last_response, hist>>
    /\ save_state

\* ------------------------------------------------------------------------
\* main(): max rounds exhausted.

\* current_phase = PHASE_DONE
ExhaustedPhase ==
    /\ pc = "exhausted"
    /\ pc' = "ex_status"
    /\ current_phase' = PHASE_DONE
    /\ UNCHANGED <<cfg, auxVars, crash, exit_code, session_name, terminal_ids, current_round,
                   final_status, feedback, analyst_feedback, programmer_feedback,
                   programmer_context_for_retry, outputs, start_at_peer, explore_sent,
                   localVars, state_file, in_flight, last_prompt, last_response, hist>>

\* final_status = "FAIL"
ExhaustedStatus ==
    /\ pc = "ex_status"
    /\ pc' = "ex_save"
    /\ final_status' = "FAIL"
    /\ UNCHANGED <<cfg, auxVars, crash, exit_code, session_name, terminal_ids, current_round,
                   current_phase, feedback, analyst_feedback, programmer_feedback,
                   programmer_context_for_retry, outputs, start_at_peer, explore_sent,
                   localVars, state_file, in_flight, last_prompt, last_response, hist>>

ExhaustedSave ==
    /\ pc = "ex_save"
    /\ pc' = "ex_exit"
    /\ UNCHANGED <<cfg, auxVars, crash, exit_code, session_name, terminal_ids, runVars, start_at_peer,
                   explore_sent, localVars, in_flight, last_prompt, last_response, hist>>
    /\ save_state

\* cleanup(_save=False); sys.exit(1)
ExhaustedExit ==
    /\ pc = "ex_exit"
    /\ pc' = "exited"
    /\ exit_code' = 1
    /\ cleanup("normal", "none", 0)
    /\ UNCHANGED <<cfg, resumed, waitVars, call, _loaded_state_terminals, created_terminal_ids, warned, crash, session_name, terminal_ids, runVars, start_at_peer,
                   explore_sent, localVars, state_file, in_flight, last_prompt,
                   last_response, hist>>

\* ------------------------------------------------------------------------
\* __main__: an exception out of main(): cleanup() saves the state, exit 1.
FatalExit ==
    /\ pc = "fatal"
    /\ pc' = "exited"
    /\ exit_code' = 1
    /\ cleanup("exception", "written", 0)
    /\ UNCHANGED <<cfg, resumed, waitVars, call, _loaded_state_terminals, created_terminal_ids, warned, crash, session_name, terminal_ids, runVars, start_at_peer,
                   explore_sent, localVars, in_flight, last_prompt, last_response, hist>>
    /\ save_state

\* ------------------------------------------------------------------------

\* The steps a resumed process shares with a fresh one.
MainLoop ==
    \/ CheckDone
    \/ WhileTest
    \/ AnalystEnter
    \/ AnalystSkip
    \/ AnalystFor
    \/ AnalystSend
    \/ AnalystReceive
    \/ AnalystSave
    \/ AnalystReviewSend
    \/ AnalystReviewReceive
    \/ AnalystReviewSave
    \/ AnalystGate
    \/ AnalystAfterLoop
    \/ AnalystLeave
    \/ ProgrammerRollback
    \/ ProgrammerEnter
    \/ ProgrammerSkip
    \/ ProgrammerFor
    \/ ProgrammerSend
    \/ ProgrammerReceive
    \/ ProgrammerSave
    \/ ProgrammerReviewSend
    \/ ProgrammerReviewReceive
    \/ ProgrammerReviewSave
    \/ ProgrammerGate
    \/ ProgrammerAfterLoop
    \/ ProgrammerLeave
    \/ TesterRollback
    \/ TesterSend
    \/ TesterReceive
    \/ TesterSave
    \/ TesterPassPhase
    \/ TesterPassStatus
    \/ TesterPassSave
    \/ TesterPassExit
    \/ TesterFailFeedback
    \/ TesterFailContext
    \/ TesterFailRound
    \/ TesterFailPhase
    \/ TesterFailFeedbacks
    \/ TesterFailClear
    \/ TesterFailSave
    \/ ExhaustedPhase
    \/ ExhaustedStatus
    \/ ExhaustedSave
    \/ ExhaustedExit
    \/ \E slot \in Slots : WaitRaises(slot)
    \/ FatalExit

Next ==
    \/ init_new_run
    \/ AnalystSkipPrimary
    \/ ProgrammerSkipPrimary
    \/ MainLoop

Spec == Init /\ [][Next]_vars

\* ------------------------------------------------------------------------
\* A killed process and a later start that resumes from the state file.

TesterDonePcs ==
    {"t_save", "t_result", "t_pass_status", "t_pass_save", "t_fail_context",
     "t_fail_round", "t_fail_phase", "t_fail_feedbacks", "t_fail_clear", "t_fail_save"}

\* What a process killed now has completed in the pass the state file is in:
\* the finished round-trips of the pass.
CrashRecord ==
    [active |-> TRUE,
     round |-> state_file.current_round,
     phase |-> state_file.current_phase,
     primary_done |-> hist.pass_primary
                      - Cardinality(in_flight \cap {"analyst", "programmer"}),
     review_done |-> hist.pass_review
                     - Cardinality(in_flight \cap {"analyst_review", "programmer_review"}),
     tester_done |-> IF state_file.current_phase = PHASE_TESTER /\ pc \in TesterDonePcs
                     THEN 1 ELSE 0]

\* The process is killed (SIGKILL, power loss) between two statements of
\* main(): nothing more is written, the module globals are gone.
Crash ==
    /\ pc \notin {"main", "crashed", "exited", "verify"}
    /\ ~resumed
    /\ state_file.exists
    /\ pc' = "crashed"
    /\ crash' = CrashRecord
    /\ session_name' = ""
    /\ terminal_ids' = [r \in VALID_AGENT_ROLES |-> ""]
    /\ current_round' = 1
    /\ current_phase' = PHASE_ANALYST
    /\ final_status' = "RUNNING"
    /\ feedback' = NoneYet
    /\ analyst_feedback' = NoneYet
    /\ programmer_feedback' = NoneYet
    /\ programmer_context_for_retry' = EmptyText
    /\ outputs' = NoOutputs
    /\ start_at_peer' = FALSE
    /\ explore_sent' = {}
    /\ rnd' = 0
    /\ analyst_cycle' = 0
    /\ programmer_cycle' = 0
    /\ analyst_approved' = FALSE
    /\ programmer_approved' = FALSE
    /\ clear_idx' = 0
    /\ in_flight' = {}
    /\ last_prompt' = NoPrompt
    /\ last_response' = [slot |-> "none", text |-> EmptyText]
    /\ hist' = [HistInit EXCEPT !.tester_text = hist.tester_text]
    /\ UNCHANGED <<cfg, exit_code, state_file, resumed, waitVars, call, extVars>>

\* Fault variant of load_state: START_AGENT is applied as in init_new_run.
load_state_AppliesStartAgent ==
    /\ pc \in {"crashed", "exited"}
    /\ ~resumed
    /\ state_file.exists
    /\ \E RESUME \in BOOLEAN : RESUME \/ state_file.final_status = "RUNNING"
    /\ pc' = "verify"
    /\ resumed' = TRUE
    /\ exit_code' = NotExited
    /\ session_name' = state_file.session_name
    /\ terminal_ids' = state_file.terminals
    /\ current_round' = state_file.current_round
    /\ current_phase' = _ROLE_PHASE_MAP[cfg.START_AGENT]
    /\ final_status' = state_file.final_status
    /\ feedback' = state_file.feedback
    /\ analyst_feedback' = state_file.analyst_feedback
    /\ programmer_feedback' = state_file.programmer_feedback
    /\ programmer_context_for_retry' = state_file.programmer_context_for_retry
    /\ outputs' = state_file.outputs
    /\ start_at_peer' = (cfg.START_AGENT \in {"peer_analyst", "peer_programmer"})
    /\ explore_sent' = {}
    /\ rnd' = 0
    /\ analyst_cycle' = 0
    /\ programmer_cycle' = 0
    /\ analyst_approved' = FALSE
    /\ programmer_approved' = FALSE
    /\ clear_idx' = 0
    /\ in_flight' = {}
    /\ last_prompt' = NoPrompt
    /\ last_response' = [slot |-> "none", text |-> EmptyText]
    /\ hist' = [HistInit EXCEPT !.tester_text = hist.tester_text]
    /\ _loaded_state_terminals' = state_file.providers
    /\ UNCHANGED <<cfg, state_file, crash, waitVars, call, created_terminal_ids,
                   exit_requested, warned, ending>>

\* main() of a later process: resume_requested (RESUME set, or
\* should_auto_resume: the file's final_status is RUNNING), then load_state().
load_state ==
    /\ pc \in {"crashed", "exited"}
    /\ ~resumed
    /\ state_file.exists
    /\ \E RESUME \in BOOLEAN : RESUME \/ state_file.final_status = "RUNNING"
    /\ pc' = "verify"
    /\ resumed' = TRUE
    /\ exit_code' = NotExited
    /\ session_name' = state_file.session_name
    /\ terminal_ids' = state_file.terminals
    /\ current_round' = state_file.current_round
    /\ current_phase' = state_file.current_phase
    /\ final_status' = state_file.final_status
    /\ feedback' = state_file.feedback
    /\ analyst_feedback' = state_file.analyst_feedback
    /\ programmer_feedback' = state_file.programmer_feedback
    /\ programmer_context_for_retry' = state_file.programmer_context_for_retry
    /\ outputs' = state_file.outputs
    /\ start_at_peer' = FALSE
    /\ explore_sent' = {}
    /\ rnd' = 0
    /\ analyst_cycle' = 0
    /\ programmer_cycle' = 0
    /\ analyst_approved' = FALSE
    /\ programmer_approved' = FALSE
    /\ clear_idx' = 0
    /\ in_flight' = {}
    /\ last_prompt' = NoPrompt
    /\ last_response' = [slot |-> "none", text |-> EmptyText]
    /\ hist' = [HistInit EXCEPT !.tester_text = hist.tester_text]
    /\ _loaded_state_terminals' = state_file.providers
    /\ UNCHANGED <<cfg, state_file, crash, waitVars, call, created_terminal_ids,
                   exit_requested, warned, ending>>

\* The roles in the order of terminal_ids.
RoleOrder == <<"analyst", "peer_analyst", "programmer", "peer_programmer", "tester">>

\* The roles whose stored provider is set and is not the configured one.
ProviderMismatch ==
    {r \in VALID_AGENT_ROLES : /\ _loaded_state_terminals[r] # ""
                               /\ _loaded_state_terminals[r] # AGENT_CONFIG[r].provider}

\* Fault variant of verify_resume_terminals: a missing terminal id is passed
\* over.
verify_resume_terminals_SkipsMissing ==
    /\ pc = "verify"
    /\ \E down \in SUBSET VALID_AGENT_ROLES :
          LET bad == {i \in 1..Len(RoleOrder) :
                        terminal_ids[RoleOrder[i]] # "" /\ RoleOrder[i] \in down}
              stop == IF bad = {} THEN Len(RoleOrder) + 1
                      ELSE CHOOSE i \in bad : \A j \in bad : i <= j
              passed == {RoleOrder[i] : i \in 1..(stop - 1)}
          IN  /\ warned' = warned \cup (passed \cap ProviderMismatch)
              /\ IF bad = {}
                 THEN pc' = "check_done" /\ exit_code' = exit_code /\ ending' = ending
                 ELSE /\ pc' = "exited"
                      /\ exit_code' = 1
                      /\ ending' = [by |-> "unreachable_terminal",
                                    save |-> "none", signum |-> 0]
    /\ UNCHANGED <<cfg, resumed, waitVars, call, _loaded_state_terminals,
                   created_terminal_ids, exit_requested, crash, session_name,
                   terminal_ids, runVars, start_at_peer, explore_sent, localVars,
                   state_file, in_flight, last_prompt, last_response, hist>>

\* verify_resume_terminals(): role by role, a missing terminal id exits with
\* 1, a status query that raises httpx.HTTPError exits with 1, a provider that
\* differs from the configured one is logged. down: the roles whose terminal
\* the service does not answer for.
verify_resume_terminals ==
    /\ pc = "verify"
    /\ \E down \in SUBSET VALID_AGENT_ROLES :
          LET bad == {i \in 1..Len(RoleOrder) :
                        terminal_ids[RoleOrder[i]] = "" \/ RoleOrder[i] \in down}
              stop == IF bad = {} THEN Len(RoleOrder) + 1
                      ELSE CHOOSE i \in bad : \A j \in bad : i <= j
              passed == {RoleOrder[i] : i \in 1..(stop - 1)}
          IN  /\ warned' = warned \cup (passed \cap ProviderMismatch)
              /\ IF bad = {}
                 THEN pc' = "check_done" /\ exit_code' = exit_code /\ ending' = ending
                 ELSE /\ pc' = "exited"
                      /\ exit_code' = 1
                      /\ ending' = [by |-> IF terminal_ids[RoleOrder[stop]] = ""
                                           THEN "missing_terminal"
                                           ELSE "unreachable_terminal",
                                    save |-> "none", signum |-> 0]
    /\ UNCHANGED <<cfg, resumed, waitVars, call, _loaded_state_terminals,
                   created_terminal_ids, exit_requested, crash, session_name,
                   terminal_ids, runVars, start_at_peer, explore_sent, localVars,
                   state_file, in_flight, last_prompt, last_response, hist>>

\* Fault variant of CheckDoneExit: a completed state always exits with 0.
CheckDoneExit_AlwaysZero ==
    /\ pc = "check_done"
    /\ current_phase = PHASE_DONE
    /\ pc' = "exited"
    /\ exit_code' = 0
    /\ UNCHANGED <<cfg, auxVars, crash, session_name, terminal_ids, runVars, start_at_peer,
                   explore_sent, localVars, state_file, in_flight, last_prompt,
                   last_response, hist>>

\* if current_phase == PHASE_DONE: sys.exit(0 if final_status == "PASS" else 1)
CheckDoneExit ==
    /\ pc = "check_done"
    /\ current_phase = PHASE_DONE
    /\ pc' = "exited"
    /\ exit_code' = IF final_status = "PASS" THEN 0 ELSE 1
    /\ UNCHANGED <<cfg, auxVars, crash, session_name, terminal_ids, runVars, start_at_peer,
                   explore_sent, localVars, state_file, in_flight, last_prompt,
                   last_response, hist>>

NextResume ==
    \/ Next
    \/ Crash
    \/ load_state
    \/ verify_resume_terminals
    \/ CheckDoneExit

\* The configurations of a run that is killed and started again: every
\* configuration with at most one round, and those with more rounds that have
\* one review cycle and the strict handoff.
ResumeConfigs ==
    {c \in Configs : \/ c.MAX_ROUNDS <= 1
                     \/ /\ c.MAX_REVIEW_CYCLES = 1
                        /\ c.MIN_REVIEW_CYCLES_BEFORE_APPROVAL = 1
                        /\ c.STRICT_FILE_HANDOFF}

InitResume == cfg \in ResumeConfigs /\ InitMain /\ WaitOff /\ call = NoCall

SpecResume == InitResume /\ [][NextResume]_vars

\* ------------------------------------------------------------------------
\* A start that finds the state file of an earlier process, which may have
\* run another version or another configuration.

RestartConfigs ==
    {c \in Configs : /\ c.MAX_ROUNDS = 1
                     /\ c.MAX_REVIEW_CYCLES = 1
                     /\ c.MIN_REVIEW_CYCLES_BEFORE_APPROVAL = 1}

\* The files: left in the analyst phase, in the tester phase or after the
\* final PASS; with every terminal id, without the tester's, or without the
\* analyst's and the tester's; with the analyst's provider as configured,
\* another one, or none.
RestartFiles ==
    {[exists |-> TRUE,
      current_round |-> 1,
      current_phase |-> ph,
      final_status |-> IF ph = PHASE_DONE THEN "PASS" ELSE "RUNNING",
      session_name |-> "cao-session",
      terminals |-> [r \in VALID_AGENT_ROLES |-> IF r \in missing THEN "" ELSE "term-" \o r],
      providers |-> [r \in VALID_AGENT_ROLES |-> IF r = "analyst" THEN prov ELSE PROVIDER],
      feedback |-> NoneYet,
      analyst_feedback |-> NoneYet,
      programmer_feedback |-> NoneYet,
      programmer_context_for_retry |-> EmptyText,
      outputs |-> [s \in Slots |->
                     IF ph = PHASE_ANALYST THEN EmptyText
                     ELSE IF s = "analyst" THEN AnalystOut
                     ELSE IF s = "programmer" THEN ProgrammerOut
                     ELSE EmptyText]] :
        ph \in {PHASE_ANALYST, PHASE_TESTER, PHASE_DONE},
        missing \in {{}, {"tester"}, {"analyst", "tester"}},
        prov \in {PROVIDER, "claude_code", ""}}

InitRestart ==
    /\ cfg \in RestartConfigs
    /\ pc = "crashed"
    /\ state_file \in RestartFiles
    /\ InitGlobals
    /\ WaitOff
    /\ call = NoCall

NextRestart ==
    \/ load_state
    \/ verify_resume_terminals
    \/ CheckDoneExit
    \/ MainLoop

SpecRestart == InitRestart /\ [][NextRestart]_vars

\* ------------------------------------------------------------------------
\* The life of a fresh process from the creation of its terminals to its
\* end: creation call by call, signals, a save_state that raises.

SIGINT == 2
SIGTERM == 15

LifeConfigs == {[c EXCEPT !.CLEANUP_ON_EXIT = b] : c \in RestartConfigs, b \in BOOLEAN}

\* What the steps of init_new_run's try block leave alone.
createKept == <<cfg, resumed, waitVars, call, _loaded_state_terminals, exit_requested,
                warned, ending, crash, exit_code, runVars, start_at_peer, explore_sent,
                localVars, state_file, in_flight, last_prompt, last_response, hist>>

\* result = api.create_session(...): the analyst's terminal and the session,
\* or an exception.
create_session ==
    /\ pc = "main"
    /\ \E ok \in BOOLEAN :
          IF ok
          THEN /\ pc' = "create"
               /\ terminal_ids' = [terminal_ids EXCEPT !["analyst"] = "term-analyst"]
               /\ created_terminal_ids' = <<"term-analyst">>
               /\ session_name' = "cao-session"
          ELSE /\ pc' = "create_failed"
               /\ UNCHANGED <<terminal_ids, created_terminal_ids, session_name>>
    /\ UNCHANGED createKept

\* for role in roles_in_order[1:]: result = api.create_terminal(...), or an
\* exception.
create_terminal ==
    /\ pc = "create"
    /\ Len(created_terminal_ids) < Len(RoleOrder)
    /\ LET role == RoleOrder[Len(created_terminal_ids) + 1]
       IN  \E ok \in BOOLEAN :
             IF ok
             THEN /\ pc' = "create"
                  /\ terminal_ids' = [terminal_ids EXCEPT ![role] = "term-" \o role]
                  /\ created_terminal_ids' = Append(created_terminal_ids, "term-" \o role)
             ELSE /\ pc' = "create_failed"
                  /\ UNCHANGED <<terminal_ids, created_terminal_ids>>
    /\ UNCHANGED <<createKept, session_name>>

\* Fault variant of CreationFailed: the created terminals are left running.
CreationFailed_NoTeardown ==
    /\ pc = "create_failed"
    /\ pc' = "exited"
    /\ exit_code' = 1
    /\ exit_requested' = exit_requested
    /\ ending' = [by |-> "creation_failed", save |-> "none", signum |-> 0]
    /\ UNCHANGED <<cfg, resumed, waitVars, call, _loaded_state_terminals,
                   created_terminal_ids, warned, crash, session_name, terminal_ids,
                   runVars, start_at_peer, explore_sent, localVars, state_file, in_flight,
                   last_prompt, last_response, hist>>

\* except Exception: for tid in created_terminal_ids: api.exit_terminal(tid);
\* sys.exit(1)
CreationFailed ==
    /\ pc = "create_failed"
    /\ pc' = "exited"
    /\ exit_code' = 1
    /\ exit_requested' = exit_requested \cup
                            {created_terminal_ids[i] : i \in 1..Len(created_terminal_ids)}
    /\ ending' = [by |-> "creation_failed", save |-> "none", signum |-> 0]
    /\ UNCHANGED <<cfg, resumed, waitVars, call, _loaded_state_terminals,
                   created_terminal_ids, warned, crash, session_name, terminal_ids,
                   runVars, start_at_peer, explore_sent, localVars, state_file, in_flight,
                   last_prompt, last_response, hist>>

\* init_new_run() after its try block
CreationDone ==
    /\ pc = "create"
    /\ Len(created_terminal_ids) = Len(RoleOrder)
    /\ pc' = "check_done"
    /\ created_terminal_ids' = <<>>
    /\ InitRunState
    /\ UNCHANGED <<cfg, resumed, waitVars, call, _loaded_state_terminals, exit_requested,
                   warned, ending, crash, exit_code, session_name, terminal_ids,
                   explore_sent, localVars, in_flight, last_prompt, last_response, hist>>
    /\ save_state

\* The steps that are one save_state() call.
SavePcs == {"a_save", "ar_save", "p_save", "pr_save", "t_save", "t_pass_save",
            "t_fail_save", "ex_save"}

\* save_state() raises (the directory or the file cannot be written): the
\* exception leaves main().
SaveStateRaises ==
    /\ pc \in SavePcs
    /\ pc' = "fatal"
    /\ UNCHANGED <<cfg, auxVars, crash, exit_code, session_name, terminal_ids, runVars,
                   start_at_peer, explore_sent, localVars, state_file, in_flight,
                   last_prompt, last_response, hist>>

\* __main__: an exception out of main(), and cleanup()'s save_state raises
\* too: the exception is swallowed.
FatalExitUnsaved ==
    /\ pc = "fatal"
    /\ pc' = "exited"
    /\ exit_code' = 1
    /\ cleanup("exception", "failed", 0)
    /\ UNCHANGED <<cfg, resumed, waitVars, call, _loaded_state_terminals,
                   created_terminal_ids, warned, crash, session_name, terminal_ids,
                   runVars, start_at_peer, explore_sent, localVars, state_file, in_flight,
                   last_prompt, last_response, hist>>

\* Fault variant of _signal_handler: the exit code is the signal number.
_signal_handler_PlainCode ==
    /\ pc \notin {"exited", "crashed"}
    /\ \E signum \in {SIGINT, SIGTERM}, saved \in BOOLEAN :
          /\ pc' = "exited"
          /\ exit_code' = signum
          /\ cleanup("signal", IF saved THEN "written" ELSE "failed", signum)
          /\ state_file' = IF saved THEN Snapshot ELSE state_file
    /\ UNCHANGED <<cfg, resumed, waitVars, call, _loaded_state_terminals,
                   created_terminal_ids, warned, crash, session_name, terminal_ids,
                   runVars, start_at_peer, explore_sent, localVars, in_flight,
                   last_prompt, last_response, hist>>

\* _signal_handler(signum, _frame), between two steps of main(): cleanup(),
\* whose save_state may raise, then sys.exit(128 + signum).
_signal_handler ==
    /\ pc \notin {"exited", "crashed"}
    /\ \E signum \in {SIGINT, SIGTERM}, saved \in BOOLEAN :
          /\ pc' = "exited"
          /\ exit_code' = 128 + signum
          /\ cleanup("signal", IF saved THEN "written" ELSE "failed", signum)
          /\ state_file' = IF saved THEN Snapshot ELSE state_file
    /\ UNCHANGED <<cfg, resumed, waitVars, call, _loaded_state_terminals,
                   created_terminal_ids, warned, crash, session_name, terminal_ids,
                   runVars, start_at_peer, explore_sent, localVars, in_flight,
                   last_prompt, last_response, hist>>

InitLife == cfg \in LifeConfigs /\ InitMain /\ WaitOff /\ call = NoCall

NextLife ==
    \/ create_session
    \/ create_terminal
    \/ CreationFailed
    \/ CreationDone
    \/ AnalystSkipPrimary
    \/ ProgrammerSkipPrimary
    \/ MainLoop
    \/ SaveStateRaises
    \/ FatalExitUnsaved
    \/ _signal_handler

SpecLife == InitLife /\ [][NextLife]_vars

\* ------------------------------------------------------------------------
\* send_and_wait(terminal_id, role, message), poll by poll, with the agent
\* and the clock as its environment.

\* The run's variables, which a send_and_wait call does not touch.
mainVars == <<cfg, pc, exit_code, session_name, terminal_ids, runVars, start_at_peer,
              explore_sent, localVars, state_file, in_flight, last_prompt,
              last_response, hist, resumed, crash, call, extVars>>

\* What GET /terminals/{id} reports.
Statuses == {"idle", "completed", "processing", "waiting_user_answer", "error"}
IdleStatuses == {"idle", "completed"}

\* File contents: left by an earlier prompt, written for this one (bare and
\* with surrounding blank lines), and blank ones.
StaleResponse == <<"answer to an earlier prompt">>
FreshResponse == <<"answer to this prompt">>
PaddedResponse == <<" ", "answer to this prompt", "">>

\* What GET /terminals/{id}/output?mode=last returns.
LastOutputs == {LastOutputBlank, <<"rendered terminal output">>}

\* str.strip() on a text: the blank lines at both ends go.
RECURSIVE LStrip(_)
LStrip(text) ==
    IF text # <<>> /\ Head(text) \in WhitespaceLines THEN LStrip(Tail(text)) ELSE text

RECURSIVE RStrip(_)
RStrip(text) ==
    IF text # <<>> /\ text[Len(text)] \in WhitespaceLines
    THEN RStrip(SubSeq(text, 1, Len(text) - 1))
    ELSE text

Strip(text) == RStrip(LStrip(text))

\* The file that is at the path when send_and_wait begins has this id; the
\* files the agent creates during the call have the next ones.
StaleId == 1

\* A send_and_wait call begins; a file of an earlier prompt may be at the path.
InitWait ==
    /\ cfg \in Configs
    /\ InitMain
    /\ cfg.START_AGENT = "analyst"
    /\ cfg.MAX_ROUNDS = 1
    /\ cfg.MAX_REVIEW_CYCLES = 1
    /\ cfg.MIN_REVIEW_CYCLES_BEFORE_APPROVAL = 1
    /\ call = NoCall
    /\ wpc = "clear"
    /\ response_file \in {NoResponse}
                         \cup {[exists |-> TRUE, id |-> StaleId, text |-> t] :
                                 t \in {StaleResponse, EmptyText}}
    /\ archive = <<>>
    /\ agent = [handle |-> 0, next_id |-> StaleId + 1]
    /\ status = "none"
    /\ content = EmptyText
    /\ now = 0
    /\ start = 0
    /\ idle_since = NoTime
    /\ result = NoResult
    /\ obs = [quiet_from |-> NoTime, polled_at |-> 0, was_reset |-> FALSE]

\* How the call ends: kind, the text returned, the status of the last poll and
\* the file the text was read from.
Outcome(kind, text, id, st) == [kind |-> kind, text |-> text, status |-> st, file_id |-> id]

Returns(kind, text, id) == wpc' = "returned" /\ result' = Outcome(kind, text, id, status)
Raises(kind) == wpc' = "raised" /\ result' = Outcome(kind, EmptyText, 0, status)

\* _archive_response(p, name): the file is renamed into the archive.
_archive_response(name) ==
    IF response_file.exists
    THEN /\ archive' = Append(archive, [name |-> name, id |-> response_file.id,
                                        text |-> response_file.text])
         /\ response_file' = NoResponse
    ELSE UNCHANGED <<archive, response_file>>

\* Fault variant of clear_stale_response: the file is left at the path.
clear_stale_response_Omitted ==
    /\ wpc = "clear"
    /\ wpc' = "send"
    /\ UNCHANGED <<mainVars, response_file, archive, agent, status, content, now, start,
                   idle_since, result, obs>>

clear_stale_response ==
    /\ wpc = "clear"
    /\ wpc' = "send"
    /\ _archive_response("stale")
    /\ UNCHANGED <<mainVars, agent, status, content, now, start, idle_since, result, obs>>

\* api.send_input(terminal_id, message): raise_for_status may raise.
send_input ==
    /\ wpc = "send"
    /\ \E ok \in BOOLEAN :
          IF ok THEN wpc' = "start" /\ result' = result
          ELSE Raises("http_error")
    /\ status' = "none"
    /\ UNCHANGED <<mainVars, response_file, archive, agent, content, now, start,
                   idle_since, obs>>

\* start = time.monotonic(); idle_since = None
WaitStart ==
    /\ wpc = "start"
    /\ wpc' = "poll"
    /\ start' = now
    /\ idle_since' = NoTime
    /\ UNCHANGED <<mainVars, response_file, archive, agent, status, content, now, result,
                   obs>>

\* status = api.get_status(terminal_id); if status == "error": raise
WaitGetStatus ==
    /\ wpc = "poll"
    /\ \E reply \in Statuses \cup {"HTTPError"} :
          /\ status' = reply
          /\ CASE reply = "HTTPError" ->
                    wpc' = "raised" /\ result' = Outcome("http_error", EmptyText, 0, reply)
               [] reply = "error" ->
                    wpc' = "raised" /\ result' = Outcome("error_state", EmptyText, 0, reply)
               [] OTHER -> wpc' = "exists" /\ result' = result
    /\ obs' = [obs EXCEPT !.polled_at = now]
    /\ UNCHANGED <<mainVars, response_file, archive, agent, content, now, start,
                   idle_since>>

\* if p.exists() and status in ("idle", "completed"): content = read_text().strip()
WaitReadFile ==
    /\ wpc = "exists"
    /\ IF response_file.exists /\ status \in IdleStatuses
       THEN wpc' = "archive" /\ content' = Strip(response_file.text)
       ELSE wpc' = "track" /\ content' = content
    /\ UNCHANGED <<mainVars, response_file, archive, agent, status, now, start, idle_since,
                   result, obs>>

\* _archive_response(p, role); if content: return content
WaitArchive ==
    /\ wpc = "archive"
    /\ _archive_response("response")
    /\ IF content # EmptyText
       THEN Returns("file", content, IF response_file.exists THEN response_file.id ELSE 0)
       ELSE wpc' = "track" /\ result' = result
    /\ UNCHANGED <<mainVars, agent, status, content, now, start, idle_since, obs>>

\* Fault variant of NoFileOutcome: STRICT_FILE_HANDOFF is not looked at.
NoFileOutcome_AlwaysFallback(error) ==
    \/ \E text \in LastOutputs : Returns("fallback", text, 0)
    \/ Raises("http_error")

\* The outcome of both "agent finished without a file" branches.
NoFileOutcome(error) ==
    IF cfg.STRICT_FILE_HANDOFF
    THEN Raises(error)
    ELSE \/ \E text \in LastOutputs : Returns("fallback", text, 0)
         \/ Raises("http_error")

\* The polls seen idle or completed with no file, without a break, began at
\* the poll of obs.quiet_from.
QuietFrom ==
    IF status \in IdleStatuses /\ ~response_file.exists
    THEN (IF obs.quiet_from = NoTime THEN obs.polled_at ELSE obs.quiet_from)
    ELSE NoTime

\* Fault variant of WaitIdleTrack: a working terminal does not reset idle_since.
WaitIdleTrack_NoReset ==
    /\ wpc = "track"
    /\ IF status \in IdleStatuses /\ ~response_file.exists
       THEN IF idle_since = NoTime
            THEN idle_since' = now /\ wpc' = "timeout" /\ result' = result
            ELSE /\ idle_since' = idle_since
                 /\ IF now - idle_since > cfg.IDLE_GRACE_SECONDS
                    THEN NoFileOutcome("grace_error")
                    ELSE wpc' = "timeout" /\ result' = result
       ELSE idle_since' = idle_since /\ wpc' = "timeout" /\ result' = result
    /\ obs' = [obs EXCEPT !.quiet_from = QuietFrom,
                          !.was_reset = @ \/ (QuietFrom = NoTime /\ obs.quiet_from # NoTime)]
    /\ UNCHANGED <<mainVars, response_file, archive, agent, status, content, now, start>>

\* if status in ("idle", "completed") and not p.exists(): ... else: idle_since = None
WaitIdleTrack ==
    /\ wpc = "track"
    /\ IF status \in IdleStatuses /\ ~response_file.exists
       THEN IF idle_since = NoTime
            THEN idle_since' = now /\ wpc' = "timeout" /\ result' = result
            ELSE /\ idle_since' = idle_since
                 /\ IF now - idle_since > cfg.IDLE_GRACE_SECONDS
                    THEN NoFileOutcome("grace_error")
                    ELSE wpc' = "timeout" /\ result' = result
       ELSE idle_since' = NoTime /\ wpc' = "timeout" /\ result' = result
    /\ obs' = [obs EXCEPT !.quiet_from = QuietFrom,
                          !.was_reset = @ \/ (QuietFrom = NoTime /\ obs.quiet_from # NoTime)]
    /\ UNCHANGED <<mainVars, response_file, archive, agent, status, content, now, start>>

\* Fault variant of WaitTimeoutTest: the status is not looked at.
WaitTimeoutTest_AlwaysTimeout ==
    /\ wpc = "timeout"
    /\ IF now - start > cfg.RESPONSE_TIMEOUT
       THEN Raises("timeout_error")
       ELSE wpc' = "sleep" /\ result' = result
    /\ UNCHANGED <<mainVars, response_file, archive, agent, status, content, now, start,
                   idle_since, obs>>

\* elapsed = time.monotonic() - start; if elapsed > timeout: ...
WaitTimeoutTest ==
    /\ wpc = "timeout"
    /\ IF now - start > cfg.RESPONSE_TIMEOUT
       THEN IF status \in IdleStatuses
            THEN NoFileOutcome("missing_error")
            ELSE Raises("timeout_error")
       ELSE wpc' = "sleep" /\ result' = result
    /\ UNCHANGED <<mainVars, response_file, archive, agent, status, content, now, start,
                   idle_since, obs>>

\* time.sleep(POLL_SECONDS)
WaitSleep ==
    /\ wpc = "sleep"
    /\ wpc' = "poll"
    /\ now' = Min(now + cfg.POLL_SECONDS, MaxClock)
    /\ UNCHANGED <<mainVars, response_file, archive, agent, status, content, start,
                   idle_since, result, obs>>

\* Time passes before a statement that reads the clock.
Tick ==
    /\ wpc \in {"poll", "track", "timeout"}
    /\ now < MaxClock
    /\ now' = now + 1
    /\ UNCHANGED <<mainVars, wpc, response_file, archive, agent, status, content, start,
                   idle_since, result, obs>>

\* The agent opens the response file for writing (the "cat > file" of the
\* response file instruction): an existing file is truncated, a missing one
\* is created, and the handle stays open.
AgentCreate ==
    /\ wpc \notin {"off", "returned", "raised"}
    /\ agent.handle = 0
    /\ agent.next_id <= StaleId + MaxAgentFiles
    /\ IF response_file.exists
       THEN /\ response_file' = [response_file EXCEPT !.text = EmptyText]
            /\ agent' = [agent EXCEPT !.handle = response_file.id]
       ELSE /\ response_file' = [exists |-> TRUE, id |-> agent.next_id, text |-> EmptyText]
            /\ agent' = [handle |-> agent.next_id, next_id |-> agent.next_id + 1]
    /\ UNCHANGED <<mainVars, wpc, archive, status, content, now, start, idle_since,
                   result, obs>>

\* The agent writes through its handle and closes it: the text goes to the
\* file it opened, wherever that file has been renamed to.
AgentWrite ==
    /\ wpc \notin {"off", "returned", "raised"}
    /\ agent.handle # 0
    /\ \E text \in {FreshResponse, PaddedResponse, <<" ">>} :
          IF response_file.exists /\ response_file.id = agent.handle
          THEN /\ response_file' = [response_file EXCEPT !.text = text]
               /\ archive' = archive
          ELSE /\ response_file' = response_file
               /\ archive' = [i \in 1..Len(archive) |->
                                IF archive[i].id = agent.handle
                                THEN [archive[i] EXCEPT !.text = text]
                                ELSE archive[i]]
    /\ agent' = [agent EXCEPT !.handle = 0]
    /\ UNCHANGED <<mainVars, wpc, status, content, now, start, idle_since, result, obs>>

NextWait ==
    \/ clear_stale_response
    \/ send_input
    \/ WaitStart
    \/ WaitGetStatus
    \/ WaitReadFile
    \/ WaitArchive
    \/ WaitIdleTrack
    \/ WaitTimeoutTest
    \/ WaitSleep
    \/ Tick
    \/ AgentCreate
    \/ AgentWrite

SpecWait == InitWait /\ [][NextWait]_vars

\* ------------------------------------------------------------------------
\* The approval gate applied to drawn review texts.

\* The lines of a drawn review text.
ReviewLines ==
    {"REVIEW_RESULT: APPROVED", "REVIEW_NOTES:", "- proposal verified",
     "- P1 traceability confirmed", "- code change reviewed", "- tests run with pytest"}

\* The gate's configuration: evidence required or not, and the thresholds.
GateConfigs ==
    {[c EXCEPT !.REQUIRE_REVIEW_EVIDENCE = require, !.REVIEW_EVIDENCE_MIN_MATCH = match] :
        c \in {k \in Configs : /\ k.START_AGENT = "analyst"
                               /\ k.MAX_ROUNDS = 1
                               /\ k.MAX_REVIEW_CYCLES = 1
                               /\ k.STRICT_FILE_HANDOFF},
        require \in BOOLEAN, match \in 0..MaxEvidenceMatch}

InitGate ==
    /\ cfg \in GateConfigs
    /\ InitMain
    /\ WaitOff
    /\ call \in [fn : {"is_review_approved"},
                 review_text : UNION {[1..n -> ReviewLines] : n \in 0..MaxReviewLines},
                 review_cycle : 1..MinCyclesBound, review_role : {"analyst", "programmer"},
                 done : {FALSE}, value : {FALSE}]

\* approved = is_review_approved(review_text, review_cycle, review_role)
ApplyGate ==
    /\ call.fn = "is_review_approved"
    /\ ~call.done
    /\ call' = [call EXCEPT !.done = TRUE,
                            !.value = is_review_approved(call.review_text, call.review_cycle,
                                                         call.review_role)]
    /\ UNCHANGED <<cfg, pc, exit_code, session_name, terminal_ids, runVars, start_at_peer,
                   explore_sent, localVars, state_file, in_flight, last_prompt,
                   last_response, hist, resumed, crash, waitVars, extVars>>

SpecGate == InitGate /\ [][ApplyGate]_vars

\* ------------------------------------------------------------------------
\* The approval gate applied to approved reviews with drawn notes.

\* The lines of drawn review notes: a domain word with its verdict, domain
\* words alone, a verdict beyond the window, a verdict on the following
\* line, and keywords of the programmer patterns.
EvidenceLines ==
    {"- proposal verified", "- P1 traceability confirmed",
     "- artifacts and downstream handoff are fine",
     "- proposal read from the first to the last page: verified",
     "- see the proposal", "- verified",
     "- code, tests, risk, issue", "- code change reviewed"}

InitEvidence ==
    /\ cfg \in GateConfigs
    /\ InitMain
    /\ WaitOff
    /\ \E notes \in UNION {[1..n -> EvidenceLines] : n \in 0..MaxNoteLines},
          cycle \in 1..MinCyclesBound, role \in {"analyst", "programmer"} :
          call = [fn |-> "is_review_approved",
                  review_text |-> <<"REVIEW_RESULT: APPROVED", "REVIEW_NOTES:">> \o notes,
                  review_cycle |-> cycle, review_role |-> role,
                  done |-> FALSE, value |-> FALSE]

SpecEvidence == InitEvidence /\ [][ApplyGate]_vars

\* ------------------------------------------------------------------------
\* save_state and load_state on the content of the state file.

\* A JSON value as json.loads gives it: its Python type, its lines when it is
\* a str, its number when it is a number (the float of n stands for n + 0.5).
\* Missing stands for a key the object does not have.
PyStr(x) == [t |-> "str", v |-> x, n |-> 0]
PyInt(k) == [t |-> "int", v |-> <<>>, n |-> k]
PyFloat(k) == [t |-> "float", v |-> <<>>, n |-> k]
PyInf == [t |-> "inf", v |-> <<>>, n |-> 0]
PyNone == [t |-> "None", v |-> <<>>, n |-> 0]
PyList == [t |-> "list", v |-> <<>>, n |-> 0]
Missing == [t |-> "missing", v |-> <<>>, n |-> 0]

\* A str of one line, "" being the text without lines.
Str(s) == PyStr(IF s = "" THEN <<>> ELSE <<s>>)

\* dict.get(key, default)
Get(val, default) == IF val.t = "missing" THEN default ELSE val

\* bool(val)
Truthy(val) ==
    CASE val.t = "str" -> val.v # <<>>
      [] val.t = "int" -> val.n # 0
      [] val.t \in {"float", "inf"} -> TRUE
      [] OTHER -> FALSE

\* str(val) of a str or an int
StrOf(val) == IF val.t = "int" THEN Str(ToString(val.n)) ELSE PyStr(val.v)

\* int(val): the number, or the exception raised
IntOf(val) ==
    CASE val.t = "str" ->
            IF val.v \in {<<"1">>, <<"2">>, <<" 3 ">>}
            THEN [raised |-> "none",
                  n |-> CASE val.v = <<"1">> -> 1 [] val.v = <<"2">> -> 2 [] OTHER -> 3]
            ELSE [raised |-> "ValueError", n |-> 0]
      [] val.t \in {"int", "float"} -> [raised |-> "none", n |-> val.n]
      [] val.t = "inf" -> [raised |-> "OverflowError", n |-> 0]
      [] OTHER -> [raised |-> "TypeError", n |-> 0]

\* One entry of "terminals": a dict {"id": ..., "provider": ...} or a bare value.
TermDict(id, provider) == [t |-> "dict", v |-> <<>>, n |-> 0, id |-> id, provider |-> provider]
TermBare(val) == [t |-> val.t, v |-> val.v, n |-> val.n, id |-> Missing, provider |-> Missing]

\* What load_state leaves behind: the exception it raised, or the globals.
LoadDefaults ==
    [raised |-> "none",
     session_name |-> Str(""),
     terminal_ids |-> [r \in VALID_AGENT_ROLES |-> Str("")],
     _loaded_state_terminals |-> [r \in VALID_AGENT_ROLES |-> TermBare(Missing)],
     current_round |-> 1,
     current_phase |-> PHASE_ANALYST,
     final_status |-> Str("RUNNING"),
     feedback |-> PyStr(NoneYet),
     analyst_feedback |-> PyStr(NoneYet),
     programmer_feedback |-> PyStr(NoneYet),
     programmer_context_for_retry |-> PyStr(EmptyText),
     outputs |-> [s \in Slots |-> PyStr(EmptyText)]]

\* current_round = data.get("current_round", 1), coerced
LoadedRound(val) ==
    LET got == Get(val, PyInt(1))
    IN  IF got.t = "int" THEN [raised |-> "none", n |-> got.n]
        ELSE IF IntOf(got).raised \in {"TypeError", "ValueError"}
             THEN [raised |-> "none", n |-> 1]
             ELSE IntOf(got)

\* current_phase = data.get("current_phase", PHASE_ANALYST), checked
LoadedPhase(val) ==
    LET got == Get(val, Str(PHASE_ANALYST))
    IN  IF /\ got.t = "str"
           /\ got.v \in {<<PHASE_ANALYST>>, <<PHASE_PROGRAMMER>>, <<PHASE_TESTER>>, <<PHASE_DONE>>}
        THEN got.v[1]
        ELSE PHASE_ANALYST

\* terminal_ids[role] after the loop over the roles
LoadedTerminalId(val) ==
    IF val.t = "dict" THEN Get(val.id, Str(""))
    ELSE IF Truthy(val) THEN StrOf(val) ELSE Str("")

\* Fault variant of LoadedTerminal: a bare terminal id is left as it is.
LoadedTerminal_KeepsBare(val, state_provider) == val

\* terminals[role] after the loop over the roles
LoadedTerminal(val, state_provider) ==
    IF val.t # "dict" /\ Truthy(val) THEN TermDict(StrOf(val), state_provider) ELSE val

\* load_state(): json.loads of the content raises on text that is no JSON;
\* data.get, terminals.get and out.get raise AttributeError on a value that is
\* no dict; int() of an infinite float raises OverflowError.
LoadedState(doc) ==
    IF doc.top = "text" THEN [LoadDefaults EXCEPT !.raised = "JSONDecodeError"]
    ELSE IF doc.top # "dict" THEN [LoadDefaults EXCEPT !.raised = "AttributeError"]
    ELSE IF doc.terminals.t \notin {"dict", "missing"}
         THEN [LoadDefaults EXCEPT !.raised = "AttributeError"]
    ELSE IF LoadedRound(doc.data.current_round).raised # "none"
         THEN [LoadDefaults EXCEPT !.raised = LoadedRound(doc.data.current_round).raised]
    ELSE IF doc.outputs.t \notin {"dict", "missing"}
         THEN [LoadDefaults EXCEPT !.raised = "AttributeError"]
    ELSE LET has_terminals == doc.terminals.t = "dict"
             has_outputs == doc.outputs.t = "dict"
             state_provider == Get(doc.data.provider, Str(PROVIDER))
         IN  [raised |-> "none",
              session_name |-> Get(doc.data.session_name, Str("")),
              terminal_ids |-> [r \in VALID_AGENT_ROLES |->
                                  IF has_terminals THEN LoadedTerminalId(doc.terminals.items[r])
                                  ELSE Str("")],
              _loaded_state_terminals |-> [r \in VALID_AGENT_ROLES |->
                                  IF has_terminals
                                  THEN LoadedTerminal(doc.terminals.items[r], state_provider)
                                  ELSE TermBare(Missing)],
              current_round |-> LoadedRound(doc.data.current_round).n,
              current_phase |-> LoadedPhase(doc.data.current_phase),
              final_status |-> Get(doc.data.final_status, Str("RUNNING")),
              feedback |-> Get(doc.data.feedback, PyStr(NoneYet)),
              analyst_feedback |-> Get(doc.data.analyst_feedback, PyStr(NoneYet)),
              programmer_feedback |-> Get(doc.data.programmer_feedback, PyStr(NoneYet)),
              programmer_context_for_retry |->
                  Get(doc.data.programmer_context_for_retry, PyStr(EmptyText)),
              outputs |-> [s \in Slots |->
                             IF has_outputs THEN Get(doc.outputs.items[s], PyStr(EmptyText))
                             ELSE PyStr(EmptyText)]]

\* save_state(): the JSON object written for a RunState, as json.loads reads
\* it back.
SavedState(run) ==
    [top |-> "dict",
     data |-> [provider |-> Str(PROVIDER),
               session_name |-> Str(run.session_name),
               current_round |-> PyInt(run.current_round),
               current_phase |-> Str(run.current_phase),
               final_status |-> Str(run.final_status),
               feedback |-> PyStr(run.feedback),
               analyst_feedback |-> PyStr(run.analyst_feedback),
               programmer_feedback |-> PyStr(run.programmer_feedback),
               programmer_context_for_retry |-> PyStr(run.programmer_context_for_retry)],
     terminals |-> [t |-> "dict",
                    items |-> [r \in VALID_AGENT_ROLES |->
                                 TermDict(Str(run.terminal_ids[r]),
                                          Str(AGENT_CONFIG[r].provider))]],
     outputs |-> [t |-> "dict", items |-> [s \in Slots |-> PyStr(run.outputs[s])]]]

\* The RunStates saved: any round, phase and status, terminals unbound, bound
\* or bound in part, feedback buffers and outputs empty or not.
RunStates ==
    [current_round : 1..(MaxRoundsBound + 1),
     current_phase : {PHASE_ANALYST, PHASE_PROGRAMMER, PHASE_TESTER, PHASE_DONE},
     final_status : {"RUNNING", "PASS", "FAIL"},
     session_name : {"", "cao-session"},
     terminal_ids : {[r \in VALID_AGENT_ROLES |-> IF r \in unbound THEN "" ELSE "term-" \o r] :
                        unbound \in {{}, {"tester"}, VALID_AGENT_ROLES}},
     feedback : {NoneYet, TesterFail},
     analyst_feedback : {NoneYet},
     programmer_feedback : {NoneYet, EmptyText},
     programmer_context_for_retry : {EmptyText, ProgrammerOut},
     outputs : {NoOutputs, [s \in Slots |-> IF s = "analyst" THEN AnalystOut ELSE EmptyText]}]

\* The contents found: text that is no JSON (a truncated write), a JSON array,
\* or an object whose keys hold values of any type.
FoundRounds ==
    {Missing, PyInt(2), Str("2"), Str(" 3 "), Str("two"), PyFloat(2), PyNone, PyList, PyInf}

FoundPhases == {Missing, Str(PHASE_TESTER), Str("review"), PyNone, PyInt(3)}

FoundTerminals ==
    {[t |-> "missing", items |-> [r \in VALID_AGENT_ROLES |-> TermBare(Missing)]],
     [t |-> "None", items |-> [r \in VALID_AGENT_ROLES |-> TermBare(Missing)]],
     [t |-> "list", items |-> [r \in VALID_AGENT_ROLES |-> TermBare(Missing)]],
     [t |-> "dict", items |-> [r \in VALID_AGENT_ROLES |-> TermBare(Missing)]],
     [t |-> "dict", items |-> [r \in VALID_AGENT_ROLES |->
                                 TermDict(Str("term-" \o r), Str("claude_code"))]],
     [t |-> "dict", items |-> [r \in VALID_AGENT_ROLES |-> TermDict(Missing, Missing)]],
     [t |-> "dict", items |-> [r \in VALID_AGENT_ROLES |-> TermBare(Str("term-" \o r))]],
     [t |-> "dict", items |-> [r \in VALID_AGENT_ROLES |->
                                 IF r = "tester" THEN TermBare(Str(""))
                                 ELSE IF r = "analyst" THEN TermBare(PyInt(7))
                                 ELSE IF r = "programmer" THEN TermBare(PyNone)
                                 ELSE TermBare(Str("term-" \o r))]]}

FoundOutputs ==
    {[t |-> "missing", items |-> [s \in Slots |-> Missing]],
     [t |-> "None", items |-> [s \in Slots |-> Missing]],
     [t |-> "dict", items |-> [s \in Slots |-> Missing]],
     [t |-> "dict", items |-> [s \in Slots |-> IF s = "analyst" THEN PyStr(AnalystOut)
                                               ELSE IF s = "tester" THEN PyNone
                                               ELSE Missing]]}

FoundDocs ==
    [top : {"dict", "text", "list"},
     data : [provider : {Missing, Str("claude_code")},
             session_name : {Missing, Str("cao-old")},
             current_round : FoundRounds,
             current_phase : FoundPhases,
             final_status : {Str("RUNNING")},
             feedback : {Missing, PyStr(TesterFail), PyNone},
             analyst_feedback : {Missing},
             programmer_feedback : {Str("")},
             programmer_context_for_retry : {Missing}],
     terminals : FoundTerminals,
     outputs : FoundOutputs]

InitLoad ==
    /\ cfg \in {c \in RestartConfigs : c.START_AGENT = "analyst" /\ c.STRICT_FILE_HANDOFF}
    /\ InitMain
    /\ WaitOff
    /\ \/ call \in [fn : {"load_state"}, doc : FoundDocs, done : {FALSE},
                    value : {LoadDefaults}]
       \/ call \in [fn : {"save_state"}, run : RunStates, done : {FALSE},
                    value : {LoadDefaults}]

\* load_state() on the content found
ApplyLoad ==
    /\ call.fn = "load_state"
    /\ ~call.done
    /\ call' = [call EXCEPT !.done = TRUE, !.value = LoadedState(call.doc)]
    /\ UNCHANGED <<cfg, pc, exit_code, session_name, terminal_ids, runVars, start_at_peer,
                   explore_sent, localVars, state_file, in_flight, last_prompt,
                   last_response, hist, resumed, crash, waitVars, extVars>>

\* save_state() of the RunState, then load_state()
ApplySaveLoad ==
    /\ call.fn = "save_state"
    /\ ~call.done
    /\ call' = [call EXCEPT !.done = TRUE, !.value = LoadedState(SavedState(call.run))]
    /\ UNCHANGED <<cfg, pc, exit_code, session_name, terminal_ids, runVars, start_at_peer,
                   explore_sent, localVars, state_file, in_flight, last_prompt,
                   last_response, hist, resumed, crash, waitVars, extVars>>

NextLoad == ApplyLoad \/ ApplySaveLoad

SpecLoad == InitLoad /\ [][NextLoad]_vars

\* ------------------------------------------------------------------------
\* explore_block_for called for one terminal id after the other, with
\* CONDENSE_EXPLORE_ON_REPEAT on or off.

ExploreIds == {"term-analyst", "term-peer_analyst", "term-programmer"}

InitExplore ==
    /\ cfg \in {[c EXCEPT !.CONDENSE_EXPLORE_ON_REPEAT = b] :
                   c \in {k \in RestartConfigs : k.START_AGENT = "analyst"
                                                   /\ k.STRICT_FILE_HANDOFF},
                   b \in BOOLEAN}
    /\ InitMain
    /\ WaitOff
    /\ call = [fn |-> "explore_block_for", log |-> <<>>]

\* block = explore_block_for(terminal_id)
ApplyExplore ==
    /\ call.fn = "explore_block_for"
    /\ Len(call.log) < MaxExploreCalls
    /\ \E terminal_id \in ExploreIds :
          /\ call' = [call EXCEPT !.log = Append(@, [id |-> terminal_id,
                                                     block |-> explore_block_for(terminal_id)])]
          /\ explore_sent' = ExploreSentAfter(terminal_id)
    /\ UNCHANGED <<cfg, pc, exit_code, session_name, terminal_ids, runVars, start_at_peer,
                   localVars, state_file, in_flight, last_prompt, last_response, hist,
                   resumed, crash, waitVars, extVars>>

SpecExplore == InitExplore /\ [][ApplyExplore]_vars

\* ------------------------------------------------------------------------
\* The condensation functions applied to drawn texts, with the condensation
\* options on or off and the line limits at zero or at their configured value.

CondenseFns ==
    {"extract_review_notes", "extract_test_evidence",
     "condense_analyst_for_programmer", "condense_programmer_for_tester"}

\* The lines of a drawn text: an empty line, a line no pattern matches, and
\* the lines the patterns of the function match.
CondenseLines(fn) ==
    {"", "looks fine"} \cup
    CASE fn = "extract_review_notes" -> REVIEW_NOTES_RE \cup {"REVIEW_RESULT: APPROVED"}
      [] fn = "extract_test_evidence" -> EVIDENCE_RE \cup {"RESULT: FAIL"}
      [] fn = "condense_analyst_for_programmer" ->
            OPENSPEC_RE \cup IMPL_NOTES_RE \cup RISKS_RE
      [] fn = "condense_programmer_for_tester" ->
            FILES_CHANGED_RE \cup BEHAVIOR_RE \cup KNOWN_LIMITS_RE

\* The option that switches the function's condensation on.
CondenseOn(fn) ==
    IF fn \in {"extract_review_notes", "extract_test_evidence"}
    THEN cfg.CONDENSE_REVIEW_FEEDBACK
    ELSE cfg.CONDENSE_CROSS_PHASE

\* The function's configured maximum number of lines.
CondenseLimit(fn) ==
    CASE fn = "extract_review_notes" -> cfg.MAX_FEEDBACK_LINES
      [] fn = "extract_test_evidence" -> cfg.MAX_TEST_EVIDENCE_LINES
      [] OTHER -> cfg.MAX_CROSS_PHASE_LINES

CondenseValue(fn, text) ==
    CASE fn = "extract_review_notes" -> extract_review_notes(text)
      [] fn = "extract_test_evidence" -> extract_test_evidence(text)
      [] fn = "condense_analyst_for_programmer" -> condense_analyst_for_programmer(text)
      [] fn = "condense_programmer_for_tester" -> condense_programmer_for_tester(text)

CondenseConfigs ==
    {[c EXCEPT !.CONDENSE_REVIEW_FEEDBACK = review,
               !.CONDENSE_CROSS_PHASE = cross,
               !.MAX_FEEDBACK_LINES = IF zero THEN 0 ELSE @,
               !.MAX_TEST_EVIDENCE_LINES = IF zero THEN 0 ELSE @,
               !.MAX_CROSS_PHASE_LINES = IF zero THEN 0 ELSE @] :
        c \in {k \in RestartConfigs : k.START_AGENT = "analyst" /\ k.STRICT_FILE_HANDOFF},
        review \in BOOLEAN, cross \in BOOLEAN, zero \in BOOLEAN}

InitCondense ==
    /\ cfg \in CondenseConfigs
    /\ InitMain
    /\ WaitOff
    /\ \E fn \in CondenseFns :
          \E text \in UNION {[1..n -> CondenseLines(fn)] : n \in 0..MaxCondenseLines} :
             call = [fn |-> fn, text |-> text, done |-> FALSE, value |-> EmptyText]

\* value = fn(text)
ApplyCondense ==
    /\ call.fn \in CondenseFns
    /\ ~call.done
    /\ call' = [call EXCEPT !.done = TRUE, !.value = CondenseValue(call.fn, call.text)]
    /\ UNCHANGED <<cfg, pc, exit_code, session_name, terminal_ids, runVars, start_at_peer,
                   explore_sent, localVars, state_file, in_flight, last_prompt,
                   last_response, hist, resumed, crash, waitVars, extVars>>

SpecCondense == InitCondense /\ [][ApplyCondense]_vars

\* ------------------------------------------------------------------------
\* CodexProvider.get_status applied to drawn terminal screens.  A screen is
\* the sequence of its lines, free of control sequences.  In a line ">"
\* stands for the prompt sign U+203A and "*" for the bullet U+2022.

\* The lines of a drawn screen: a user message, an assistant message, the
\* active-work line, the shortcut hint below the input box, the context
\* footer, the bare prompt, the prompt with its hint, an approval question and
\* an error.
ScreenLines ==
    {"> Fix the bug", "* Analyzing codebase", "Working (5s * esc to interrupt)",
     "? for shortcuts", "92% context left", ">", "> Ask anything ? for shortcuts",
     "Approve command? (y/n)", "Error: boom"}

\* The active-work line of the Codex UI.
ACTIVE_WORK_LINES == {"Working (5s * esc to interrupt)"}

USER_PREFIX_PATTERN == {"> Fix the bug", "> Ask anything ? for shortcuts"}
ASSISTANT_PREFIX_PATTERN == {"* Analyzing codebase"}
IDLE_PROMPT_LINE_PATTERN == {">"}
PROMPT_HINT_LINE_PATTERN == {"> Ask anything ? for shortcuts"}
CONTEXT_FOOTER_PATTERN == {"92% context left"}
WAITING_PROMPT_PATTERN == {"Approve command? (y/n)"}
ERROR_PATTERN == {"Error: boom"}

\* clean_output.splitlines()[-25:]
TAIL_LINES == 25
TailOutput(clean_output) ==
    SubSeq(clean_output, Max(1, Len(clean_output) - TAIL_LINES + 1), Len(clean_output))

\* A match of USER_PREFIX_PATTERN begins in line i: the line is a user message,
\* or it is a bare prompt and "\s+\S" runs over the line end into the next line.
UserMatchAt(clean_output, i) ==
    \/ clean_output[i] \in USER_PREFIX_PATTERN
    \/ clean_output[i] \in IDLE_PROMPT_LINE_PATTERN /\ i < Len(clean_output)

\* The line of the last match of USER_PREFIX_PATTERN, 0 when there is none.
LastUser(clean_output) ==
    LET at == {i \in 1..Len(clean_output) : UserMatchAt(clean_output, i)}
    IN IF at = {} THEN 0 ELSE CHOOSE i \in at : \A j \in at : j <= i

\* clean_output[last_user.start():] if last_user else clean_output
OutputAfterLastUser(clean_output) ==
    SubSeq(clean_output, Max(1, LastUser(clean_output)), Len(clean_output))

\* _analyze_clean_output(clean_output)["status"]
_analyze_clean_output(clean_output) ==
    LET tail_output == TailOutput(clean_output)
        has_last_user == LastUser(clean_output) # 0
        output_after_last_user == OutputAfterLastUser(clean_output)
        assistant_after_last_user ==
            has_last_user /\ Search(ASSISTANT_PREFIX_PATTERN, output_after_last_user)
        has_idle_prompt_at_end ==
            /\ clean_output # <<>>
            /\ clean_output[Len(clean_output)]
                  \in IDLE_PROMPT_LINE_PATTERN \cup PROMPT_HINT_LINE_PATTERN
        has_v104_idle_prompt ==
            \/ Search(CONTEXT_FOOTER_PATTERN, tail_output)
            \/ Search(IDLE_PROMPT_LINE_PATTERN, tail_output)
            \/ Search(PROMPT_HINT_LINE_PATTERN, tail_output)
        waiting_after_last_user ==
            /\ has_last_user
            /\ ~assistant_after_last_user
            /\ Search(WAITING_PROMPT_PATTERN, output_after_last_user)
        error_after_last_user ==
            /\ has_last_user
            /\ ~assistant_after_last_user
            /\ Search(ERROR_PATTERN, output_after_last_user)
        waiting_no_user == ~has_last_user /\ Search(WAITING_PROMPT_PATTERN, tail_output)
        error_no_user == ~has_last_user /\ Search(ERROR_PATTERN, tail_output)
    IN IF waiting_after_last_user \/ waiting_no_user THEN "waiting_user_answer"
       ELSE IF error_after_last_user \/ error_no_user THEN "error"
       ELSE IF has_idle_prompt_at_end \/ has_v104_idle_prompt
            THEN (IF has_last_user /\ assistant_after_last_user THEN "completed" ELSE "idle")
       ELSE "processing"

\* get_status(): the history of the window, analysed; no history is an error.
get_status(output) ==
    IF output = <<>> THEN "error" ELSE _analyze_clean_output(output)

InitCodex ==
    /\ cfg \in {k \in RestartConfigs : k.START_AGENT = "analyst" /\ k.STRICT_FILE_HANDOFF}
    /\ InitMain
    /\ WaitOff
    /\ \E output \in UNION {[1..n -> ScreenLines] : n \in 0..MaxScreenLines} :
          call = [fn |-> "get_status", output |-> output, done |-> FALSE, value |-> "none"]

\* status = provider.get_status()
ApplyCodex ==
    /\ call.fn = "get_status"
    /\ ~call.done
    /\ call' = [call EXCEPT !.done = TRUE, !.value = get_status(call.output)]
    /\ UNCHANGED <<cfg, pc, exit_code, session_name, terminal_ids, runVars, start_at_peer,
                   explore_sent, localVars, state_file, in_flight, last_prompt,
                   last_response, hist, resumed, crash, waitVars, extVars>>

SpecCodex == InitCodex /\ [][ApplyCodex]_vars

\* ------------------------------------------------------------------------
\* The run to its end: a fresh run with one round and none or one review
\* cycle, in which main() goes on as long as a step is possible.

TermConfigs ==
    {c \in Configs : /\ c.MAX_ROUNDS = 1
                     /\ c.MAX_REVIEW_CYCLES \in {0, 1}
                     /\ c.MIN_REVIEW_CYCLES_BEFORE_APPROVAL = 1}

InitTerm == cfg \in TermConfigs /\ InitMain /\ WaitOff /\ call = NoCall

\* The interpreter runs main() on: a step that is possible is taken.
SpecTerm == InitTerm /\ [][Next]_vars /\ WF_vars(Next)

\* ------------------------------------------------------------------------
\* terminal_service.create_terminal, call by call of the tmux client, the
\* database and the provider, each of which returns or raises.  The tmux
\* server is the set of its sessions and the set of their windows, the
\* database the set of its terminal records.

SESSION_PREFIX == "cao-"

\* The session names a caller passes, with and without the prefix.
RequestedSessions == {"cao-a", "b", "cao-c"}

\* The tmux sessions that can exist before the call.
TmuxSessions == {"cao-a", "cao-b"}

\* session_name after lines 63-64
Prefixed(name) == IF name = "b" THEN SESSION_PREFIX \o name ELSE name

\* The window and the database record of a terminal.
TerminalOf(session, id) == [session |-> session, id |-> id]

\* Everything but the call.
callKept == <<cfg, pc, exit_code, session_name, terminal_ids, runVars, start_at_peer,
              explore_sent, localVars, state_file, in_flight, last_prompt,
              last_response, hist, resumed, crash, waitVars, extVars>>

InitTerminal ==
    /\ cfg \in {k \in RestartConfigs : k.START_AGENT = "analyst" /\ k.STRICT_FILE_HANDOFF}
    /\ InitMain
    /\ WaitOff
    /\ \E new_session \in BOOLEAN, name \in RequestedSessions,
          sessions \in SUBSET TmuxSessions :
          LET terminals == {TerminalOf(s, "old-" \o s) : s \in sessions}
              tmux == [sessions |-> sessions, windows |-> terminals, db |-> terminals]
          IN call = [fn |-> "create_terminal", at |-> "check",
                     new_session |-> new_session, session_name |-> name,
                     terminal_id |-> "new", tmux |-> tmux, before |-> tmux]

\* Lines 61-68 and 72-75: the prefix, and the test of the session's existence.
CreateTerminalCheck ==
    /\ call.fn = "create_terminal"
    /\ call.at = "check"
    /\ LET name == IF call.new_session THEN Prefixed(call.session_name)
                   ELSE call.session_name
           exists == name \in call.tmux.sessions
       IN call' = [call EXCEPT !.session_name = name,
                               !.at = IF call.new_session = exists THEN "except"
                                      ELSE "tmux"]
    /\ UNCHANGED callKept

\* Lines 71 and 76-78: tmux_client.create_session or create_window.
CreateTerminalTmux ==
    /\ call.fn = "create_terminal"
    /\ call.at = "tmux"
    /\ \E ok \in BOOLEAN :
          call' = IF ~ok THEN [call EXCEPT !.at = "except"]
                  ELSE [call EXCEPT
                          !.at = "db",
                          !.tmux.sessions = @ \cup {call.session_name},
                          !.tmux.windows =
                              @ \cup {TerminalOf(call.session_name, call.terminal_id)}]
    /\ UNCHANGED callKept

\* Line 81: db_create_terminal
CreateTerminalDb ==
    /\ call.fn = "create_terminal"
    /\ call.at = "db"
    /\ \E ok \in BOOLEAN :
          call' = IF ~ok THEN [call EXCEPT !.at = "except"]
                  ELSE [call EXCEPT
                          !.at = "provider",
                          !.tmux.db = @ \cup {TerminalOf(call.session_name, call.terminal_id)}]
    /\ UNCHANGED callKept

\* Lines 84-87: create_provider and initialize, which raises on a timeout.
CreateTerminalProvider ==
    /\ call.fn = "create_terminal"
    /\ call.at = "provider"
    /\ \E ok \in BOOLEAN : call' = [call EXCEPT !.at = IF ok THEN "pipe" ELSE "except"]
    /\ UNCHANGED callKept

\* Lines 90-107: the log file, pipe_pane, and the Terminal returned.
CreateTerminalPipe ==
    /\ call.fn = "create_terminal"
    /\ call.at = "pipe"
    /\ \E ok \in BOOLEAN : call' = [call EXCEPT !.at = IF ok THEN "returned" ELSE "except"]
    /\ UNCHANGED callKept

\* Lines 109-116: if new_session, kill_session(session_name), whose own
\* exception is swallowed; raise.
CreateTerminalExcept ==
    /\ call.fn = "create_terminal"
    /\ call.at = "except"
    /\ \E killed \in BOOLEAN :
          call' = IF call.new_session /\ killed
                  THEN [call EXCEPT
                          !.at = "raised",
                          !.tmux.sessions = @ \ {call.session_name},
                          !.tmux.windows = {w \in @ : w.session # call.session_name}]
                  ELSE [call EXCEPT !.at = "raised"]
    /\ UNCHANGED callKept

NextTerminal ==
    \/ CreateTerminalCheck
    \/ CreateTerminalTmux
    \/ CreateTerminalDb
    \/ CreateTerminalProvider
    \/ CreateTerminalPipe
    \/ CreateTerminalExcept

SpecTerminal == InitTerminal /\ [][NextTerminal]_vars

\* ========================================================================
\* Properties.

\* A slot's prompt is sent in this step.
Dispatching(slot) == slot \notin in_flight /\ slot \in in_flight'

\* Some prompt is sent in this step.
AnyDispatch == \E slot \in Slots : Dispatching(slot)

\* The text has a line starting with RESULT: PASS (any case, leading blanks).
HasPassMarker(text) == \E i \in 1..Len(text) : text[i] \in {"RESULT: PASS", "  result: pass"}

\* The text is empty or whitespace only.
OnlyWhitespace(text) == \A i \in 1..Len(text) : text[i] = "" \/ text[i] = " "

\* The last response received is a tester response with the PASS marker.
PassReceived == last_response.slot = "tester" /\ HasPassMarker(last_response.text)

\* ------------------------------------------------------------------------
\* C1: the phase is always one of ANALYST, PROGRAMMER, TESTER, DONE, and it
\* becomes DONE only right after a tester response with the PASS marker in a
\* round <= MAX_ROUNDS (then persisted with final_status PASS) or once
\* current_round > MAX_ROUNDS (then persisted with final_status FAIL).
C1_DoneOnlyByPassOrExhaustion ==
    /\ [](current_phase \in Phases)
    /\ [][(current_phase # PHASE_DONE /\ current_phase' = PHASE_DONE) =>
            \/ /\ PassReceived
               /\ outputs["tester"] = last_response.text
               /\ current_round <= cfg.MAX_ROUNDS
               /\ in_flight = {}
            \/ current_round > cfg.MAX_ROUNDS]_vars
    /\ []((state_file.exists /\ state_file.current_phase = PHASE_DONE) =>
            \/ /\ state_file.final_status = "PASS"
               /\ HasPassMarker(state_file.outputs["tester"])
               /\ state_file.current_round <= cfg.MAX_ROUNDS
            \/ /\ state_file.final_status = "FAIL"
               /\ state_file.current_round > cfg.MAX_ROUNDS)

\* C1 witness: DONE was just entered after a PASS in the second round.
C1_Witness ==
    /\ pc = "t_pass_status"
    /\ current_phase = PHASE_DONE
    /\ current_round = 2
    /\ PassReceived

\* ------------------------------------------------------------------------
\* C2: after a tester FAIL in round r the next persisted state has round
\* r+1, phase analyst, both review feedbacks reset, all slots empty, feedback
\* = the condensed evidence of that tester response and
\* programmer_context_for_retry = the condensed programmer output of round r.
TesterFailPersisted ==
    /\ state_file.exists
    /\ state_file.current_phase = PHASE_TESTER
    /\ last_response.slot = "tester"
    /\ state_file.outputs["tester"] = last_response.text
    /\ ~HasPassMarker(last_response.text)

C2_FailUpdate ==
    [][(TesterFailPersisted /\ state_file' # state_file) =>
        /\ state_file'.current_round = state_file.current_round + 1
        /\ state_file'.current_phase = PHASE_ANALYST
        /\ state_file'.final_status = "RUNNING"
        /\ state_file'.analyst_feedback = NoneYet
        /\ state_file'.programmer_feedback = NoneYet
        /\ \A s \in Slots : state_file'.outputs[s] = EmptyText
        /\ state_file'.feedback = extract_test_evidence(last_response.text)
        /\ state_file'.programmer_context_for_retry =
              condense_programmer_for_tester(state_file.outputs["programmer"])]_vars

\* C2 witness: the FAIL of round 1 is persisted, with the evidence cut to the
\* configured three lines and the programmer sections kept.
C2_Witness ==
    /\ pc = "while"
    /\ state_file.exists
    /\ state_file.current_round = 2
    /\ state_file.current_phase = PHASE_ANALYST
    /\ state_file.feedback = <<"RESULT: FAIL", "EVIDENCE:", "- step 2 failed">>
    /\ state_file.programmer_context_for_retry =
          <<"- Files changed: a.py", "- Behavior implemented: x">>
    /\ state_file.outputs = NoOutputs

\* ------------------------------------------------------------------------
\* C3: without a PASS the tester is dispatched exactly MAX_ROUNDS times; the
\* run then sets DONE/FAIL, persists it, dispatches nothing more and exits 1.
ExhaustedPcs == {"exhausted", "ex_status", "ex_save", "ex_exit"}

C4_PassEndsRun ==
    /\ [][PassReceived => ~AnyDispatch]_vars
    /\ [](PassReceived => (current_round <= cfg.MAX_ROUNDS /\ pc # "fatal"))
    /\ []((PassReceived /\ pc = "exited") =>
            /\ exit_code = 0
            /\ state_file.exists
            /\ state_file.current_phase = PHASE_DONE
            /\ state_file.final_status = "PASS")
    /\ [](exit_code = 0 => PassReceived)

\* C4 witness: scenario A, PASS in round 1 of a run started at the analyst.
C4_Witness ==
    /\ pc = "exited"
    /\ exit_code = 0
    /\ cfg.START_AGENT = "analyst"
    /\ current_round = 1
    /\ state_file.current_phase = PHASE_DONE
    /\ state_file.final_status = "PASS"

C6_Rollback ==
    /\ [][Dispatching("programmer") => ~OnlyWhitespace(outputs["analyst"])]_vars
    /\ [][Dispatching("tester") => ~OnlyWhitespace(outputs["programmer"])]_vars
    /\ [][(pc = "programmer_if" /\ current_phase = PHASE_PROGRAMMER
           /\ OnlyWhitespace(outputs["analyst"])) =>
            /\ current_phase' = PHASE_ANALYST
            /\ current_round' = current_round
            /\ state_file' = Snapshot'
            /\ pc' = "while"
            /\ exit_code' = NotExited]_vars
    /\ [][(pc = "tester_if" /\ current_phase = PHASE_TESTER
           /\ OnlyWhitespace(outputs["programmer"])) =>
            /\ current_phase' = PHASE_PROGRAMMER
            /\ current_round' = current_round
            /\ state_file' = Snapshot'
            /\ pc' = "while"
            /\ exit_code' = NotExited]_vars

\* C6 witness: the analyst answered with whitespace (non-strict fallback) and
\* the programmer phase fell back to the analyst phase in the same round.
C6_Witness ==
    /\ pc = "while"
    /\ rnd = current_round
    /\ current_phase = PHASE_ANALYST
    /\ outputs["analyst"] = LastOutputBlank
    /\ hist.pass_review >= 0
    /\ state_file.current_phase = PHASE_ANALYST
    /\ cfg.MAX_REVIEW_CYCLES >= 1

\* ------------------------------------------------------------------------
\* A review phase of the initialised run is left forwards in this step.
LeavesAnalyst ==
    /\ state_file.exists
    /\ current_phase = PHASE_ANALYST
    /\ current_phase' = PHASE_PROGRAMMER

LeavesProgrammer ==
    /\ state_file.exists
    /\ current_phase = PHASE_PROGRAMMER
    /\ current_phase' = PHASE_TESTER

\* C7: in one pass through the ANALYST or PROGRAMMER phase the primary agent
\* and the peer reviewer are each dispatched at most MAX_REVIEW_CYCLES times,
\* and once a review has passed the gate nothing of the phase is dispatched
\* again in that pass.
C7_ReviewCyclesBounded ==
    /\ [](hist.pass_primary <= cfg.MAX_REVIEW_CYCLES)
    /\ [](hist.pass_review <= cfg.MAX_REVIEW_CYCLES)
    /\ [][(pc = "a_gate" /\ is_review_approved(outputs["analyst_review"], analyst_cycle, "analyst"))
            => analyst_approved']_vars
    /\ [][(pc = "p_gate" /\ is_review_approved(outputs["programmer_review"], programmer_cycle, "programmer"))
            => programmer_approved']_vars
    /\ [][(Dispatching("analyst") \/ Dispatching("analyst_review")) =>
            ~analyst_approved]_vars
    /\ [][(Dispatching("programmer") \/ Dispatching("programmer_review")) =>
            ~programmer_approved]_vars

\* C7 witness: the analyst pass used both of its two cycles and the second
\* review passed the gate.
C7_Witness ==
    /\ pc = "a_after"
    /\ analyst_approved
    /\ cfg.MAX_REVIEW_CYCLES = 2
    /\ hist.pass_primary = 2
    /\ hist.pass_review = 2

\* ------------------------------------------------------------------------
\* The condensed notes of the last review of the pass, computed on the last
\* response received (no review at all when MAX_REVIEW_CYCLES = 0).
LastReviewNotes(slot) ==
    IF cfg.MAX_REVIEW_CYCLES = 0 THEN extract_review_notes(EmptyText)
    ELSE IF last_response.slot = slot THEN extract_review_notes(last_response.text)
    ELSE <<"no review received">>

\* C8 as stated: when no review of the pass passed the gate, feedback is set
\* to the condensed notes of the last review.
C8_Original ==
    /\ [][(pc = "a_after" /\ ~analyst_approved) =>
            feedback' = LastReviewNotes("analyst_review")]_vars
    /\ [][(pc = "p_after" /\ ~programmer_approved) =>
            feedback' = LastReviewNotes("programmer_review")]_vars

\* C8 as amended: when no review of the pass passed the gate the run goes on
\* without failing: feedback is set to a fixed notice line followed by the
\* condensed notes of the last review and persisted, and the phase changes to
\* the next one in the same round.
C8_GateExhausted ==
    /\ [][(pc = "a_after" /\ ~analyst_approved) =>
            /\ feedback' = <<ANALYST_GATE_NOTICE>> \o LastReviewNotes("analyst_review")
            /\ state_file' = Snapshot'
            /\ pc' = "a_leave"]_vars
    /\ [][(pc = "p_after" /\ ~programmer_approved) =>
            /\ feedback' = <<PROGRAMMER_GATE_NOTICE>> \o LastReviewNotes("programmer_review")
            /\ state_file' = Snapshot'
            /\ pc' = "p_leave"]_vars
    /\ [][(pc = "a_leave") =>
            /\ LeavesAnalyst
            /\ current_round' = current_round
            /\ state_file' = Snapshot'
            /\ pc' = "programmer_if" /\ exit_code' = NotExited]_vars
    /\ [][(pc = "p_leave") =>
            /\ LeavesProgrammer
            /\ current_round' = current_round
            /\ state_file' = Snapshot'
            /\ pc' = "tester_if" /\ exit_code' = NotExited]_vars
    /\ [](pc \in {"a_after", "a_leave", "p_after", "p_leave"} => ENABLED Next)

\* C8 witness: both analyst reviews asked for a revision and the programmer
\* phase is reached in round 1 with the notice and the notes as feedback.
C8_Witness ==
    /\ pc = "programmer_if"
    /\ current_phase = PHASE_PROGRAMMER
    /\ current_round = 1
    /\ ~analyst_approved
    /\ cfg.MAX_REVIEW_CYCLES = 2
    /\ outputs["analyst_review"] = ReviewRevise
    /\ Len(feedback) > 1
    /\ feedback[1] = ANALYST_GATE_NOTICE
    /\ state_file.feedback = feedback

\* ------------------------------------------------------------------------
\* C9 as stated: a review phase is left only after at least
\* MIN_REVIEW_CYCLES_BEFORE_APPROVAL peer reviews were dispatched in the pass
\* (stated for configurations that allow at least one review cycle).
C9_Original ==
    [][(cfg.MAX_REVIEW_CYCLES >= 1 /\ (LeavesAnalyst \/ LeavesProgrammer)) =>
        hist.pass_review >= cfg.MIN_REVIEW_CYCLES_BEFORE_APPROVAL]_vars

\* C9 as amended: a review passes the gate only from cycle
\* MIN_REVIEW_CYCLES_BEFORE_APPROVAL on, and a review phase is left only
\* after at least min(MIN_REVIEW_CYCLES_BEFORE_APPROVAL, MAX_REVIEW_CYCLES)
\* peer reviews were dispatched in the pass.
C9_MinReviews ==
    /\ [][(LeavesAnalyst \/ LeavesProgrammer) =>
            /\ hist.pass_review >= cfg.MIN_REVIEW_CYCLES_BEFORE_APPROVAL
               \/ hist.pass_review >= cfg.MAX_REVIEW_CYCLES
            /\ (LeavesAnalyst /\ analyst_approved) =>
                  hist.pass_review >= cfg.MIN_REVIEW_CYCLES_BEFORE_APPROVAL
            /\ (LeavesProgrammer /\ programmer_approved) =>
                  hist.pass_review >= cfg.MIN_REVIEW_CYCLES_BEFORE_APPROVAL]_vars
    /\ [][((~analyst_approved /\ analyst_approved')
           \/ (~programmer_approved /\ programmer_approved')) =>
            hist.pass_review >= cfg.MIN_REVIEW_CYCLES_BEFORE_APPROVAL]_vars

\* C9 witness: the first review said APPROVED with full evidence, the gate
\* turned it down because two cycles are required, and the loop goes on.
C9_Witness ==
    /\ pc = "a_for"
    /\ analyst_cycle = 1
    /\ cfg.MIN_REVIEW_CYCLES_BEFORE_APPROVAL = 2
    /\ outputs["analyst_review"] = AnalystReviewApproved
    /\ hist.gate_cycle = 1
    /\ ~analyst_approved

\* ------------------------------------------------------------------------
\* C10: at most one dispatch is outstanding; in a cycle with a primary
\* dispatch the primary's response has been received before the reviewer is
\* dispatched and the reviewer's prompt carries that response; the gate of
\* cycle N has been evaluated before anything of cycle N+1 is dispatched.
C10_Sequential ==
    /\ [](Cardinality(in_flight) <= 1)
    /\ [][AnyDispatch => in_flight = {}]_vars
    /\ [][(Dispatching("analyst_review") /\ hist.primary_cycle = analyst_cycle) =>
            /\ last_response.slot = "analyst"
            /\ last_prompt.slot = "analyst" /\ last_prompt.cycle = analyst_cycle
            /\ last_prompt'.upstream = last_response.text]_vars
    /\ [][(Dispatching("programmer_review") /\ hist.primary_cycle = programmer_cycle) =>
            /\ last_response.slot = "programmer"
            /\ last_prompt.slot = "programmer" /\ last_prompt.cycle = programmer_cycle
            /\ last_prompt'.upstream = last_response.text]_vars
    /\ [][(Dispatching("analyst") \/ Dispatching("analyst_review")) =>
            hist.gate_cycle = analyst_cycle - 1]_vars
    /\ [][(Dispatching("programmer") \/ Dispatching("programmer_review")) =>
            hist.gate_cycle = programmer_cycle - 1]_vars

\* C10 witness: the reviewer of the second analyst cycle has been sent the
\* analyst's answer of that cycle.
C10_Witness ==
    /\ pc = "ar_wait"
    /\ analyst_cycle = 2
    /\ hist.primary_cycle = 2
    /\ hist.gate_cycle = 1
    /\ in_flight = {"analyst_review"}
    /\ last_prompt.upstream = AnalystOut
    /\ last_response = [slot |-> "analyst", text |-> AnalystOut]

Repeats ==
    Min(hist.pass_primary, crash.primary_done)
    + Min(hist.pass_review, crash.review_done)
    + Min(hist.tester_dispatches, crash.tester_done)

\* C12: a run resumed after the process was killed dispatches again at most
\* one of the round-trips that had completed before the kill.
C12_AtMostOneRepeated == (resumed /\ crash.active) => Repeats <= 1

\* ------------------------------------------------------------------------
\* This process resumes in the middle of the phase: the killed process had
\* completed a round-trip of the pass the state file is in.
ResumedMidPhase ==
    /\ resumed
    /\ crash.active
    /\ crash.phase = current_phase
    /\ crash.round = current_round
    /\ crash.primary_done + crash.review_done > 0

\* The step that enters the block of a review phase.
EntersAnalyst == pc = "analyst_if" /\ current_phase = PHASE_ANALYST
EntersProgrammer == pc = "programmer_if" /\ pc' = "p_for"

\* C13: the entry into ANALYST or PROGRAMMER empties the phase's primary and
\* review slots before the first dispatch, except in a process resumed in the
\* middle of the phase, which keeps the stored outputs.
C13_ClearedUnlessResumedMidPhase ==
    /\ [][(EntersAnalyst /\ ~ResumedMidPhase) =>
             (outputs'["analyst"] = EmptyText /\ outputs'["analyst_review"] = EmptyText)]_vars
    /\ [][(EntersProgrammer /\ ~ResumedMidPhase) =>
             (outputs'["programmer"] = EmptyText
              /\ outputs'["programmer_review"] = EmptyText)]_vars
    /\ [][((EntersAnalyst \/ EntersProgrammer) /\ ResumedMidPhase) =>
             outputs' = outputs]_vars

\* ------------------------------------------------------------------------
\* A process that has loaded a completed state and has not left the start-up.
LoadedDone == pc \in {"verify", "check_done"} /\ current_phase = PHASE_DONE

\* No dispatch and no change of the file once the file says DONE.
DoneIsTerminal ==
    (state_file.exists /\ state_file.current_phase = PHASE_DONE) =>
        (~AnyDispatch /\ state_file' = state_file)

\* C14 as stated: a start that loads a DONE state exits with 0 if
\* final_status is PASS and with 1 otherwise.
C14_Original ==
    [][DoneIsTerminal /\ ((LoadedDone /\ pc' = "exited") =>
                             exit_code' = IF final_status = "PASS" THEN 0 ELSE 1)]_vars

\* C14: once the persisted phase is DONE no agent is dispatched and the file
\* is not changed; a start that loads such a state goes nowhere but to its
\* exit, with code 1 when the terminal verification fails, and otherwise
\* with code 0 for PASS and 1 for any other final_status.
C14_DoneTerminal ==
    [][/\ DoneIsTerminal
       /\ LoadedDone => pc' \in {"check_done", "exited"}
       /\ (LoadedDone /\ pc' = "exited") =>
              exit_code' = IF pc = "check_done" /\ final_status = "PASS" THEN 0 ELSE 1]_vars

\* A start loaded a state completed with FAIL, verified the terminals and
\* exited with 1 without a dispatch.
C14_Witness ==
    /\ resumed
    /\ pc = "exited"
    /\ exit_code = 1
    /\ state_file.current_phase = PHASE_DONE
    /\ state_file.final_status = "FAIL"
    /\ \A r \in VALID_AGENT_ROLES : terminal_ids[r] # ""
    /\ hist = HistInit
    /\ explore_sent = {}

\* ------------------------------------------------------------------------
\* C15: a response file present when send_and_wait begins is renamed into the
\* archive with its content before the prompt is sent, and the content the
\* call returns is read from a file created after the call began, never from
\* that file.
C15_StaleArchivedBeforeSend ==
    /\ [][(wpc = "clear" /\ wpc' # wpc /\ response_file.exists) =>
             (/\ ~response_file'.exists
              /\ archive' = Append(archive, [name |-> "stale", id |-> response_file.id,
                                            text |-> response_file.text]))]_vars
    /\ []((wpc \notin {"off", "clear"} /\ response_file.exists) =>
             response_file.id # StaleId)
    /\ [](result.kind = "file" =>
             (result.file_id > StaleId /\ result.text = FreshResponse))

\* The call returned the agent's answer while the earlier file, left with its
\* content, is in the archive.
C15_Witness ==
    /\ wpc = "returned"
    /\ result.kind = "file"
    /\ result.text = FreshResponse
    /\ archive[1] = [name |-> "stale", id |-> StaleId, text |-> StaleResponse]

\* ------------------------------------------------------------------------
\* C16: with STRICT_FILE_HANDOFF every value the call returns is the stripped,
\* non-blank content read from the response file at a poll whose status was
\* idle or completed; the terminal's output is never returned, and every
\* other end of the call is an exception.
C16_StrictReturnsFileOnly ==
    /\ [][(cfg.STRICT_FILE_HANDOFF /\ wpc' = "returned" /\ wpc # "returned") =>
             (/\ wpc = "archive"
              /\ status \in IdleStatuses
              /\ result' = Outcome("file", content, response_file.id, status)
              /\ ~Blank(content))]_vars
    /\ [][(wpc = "exists" /\ wpc' = "archive") =>
             (/\ response_file.exists
              /\ status \in IdleStatuses
              /\ content' = Strip(response_file.text))]_vars
    /\ []((cfg.STRICT_FILE_HANDOFF /\ result.kind # "none") =>
             IF result.kind = "file" THEN wpc = "returned" ELSE wpc = "raised")

\* A strict call returned the content of a file written with blank lines
\* around the answer.
C16_Witness ==
    /\ cfg.STRICT_FILE_HANDOFF
    /\ wpc = "returned"
    /\ result.kind = "file"
    /\ result.text = FreshResponse
    /\ result.status = "completed"
    /\ archive[Len(archive)].name = "response"
    /\ archive[Len(archive)].text = PaddedResponse

\* ------------------------------------------------------------------------
\* The agent's finished answer lies in a file the wait archived.
AnswerInArchive ==
    \E i \in 1..Len(archive) :
        archive[i].name = "response" /\ ~Blank(archive[i].text)

\* C17: a response file found blank at an idle or completed poll is left in
\* place (a file is archived only with non-blank content read from it),
\* polling goes on, and the wait never ends with the error that the agent
\* did not write its response file when the agent has finished writing it.
C17_BlankFileLeftInPlace ==
    /\ [][(wpc = "archive" /\ wpc' # wpc /\ Blank(content)) =>
             (wpc' = "track" /\ response_file' = response_file /\ archive' = archive)]_vars
    /\ [](result.kind \in {"grace_error", "missing_error"} => ~AnswerInArchive)

\* ------------------------------------------------------------------------
\* The step that takes the idle-grace outcome.
GraceOutcome == wpc = "track" /\ wpc' \in {"returned", "raised"}

\* C18: the idle-grace outcome is taken only when the polls since
\* obs.quiet_from have all seen the terminal idle or completed with no
\* response file and more than IDLE_GRACE_SECONDS have passed since that
\* poll; a poll that sees the terminal working clears idle_since.
C18_IdleGraceContinuous ==
    /\ [][GraceOutcome =>
             (/\ status \in IdleStatuses
              /\ ~response_file.exists
              /\ obs.quiet_from # NoTime
              /\ now - obs.quiet_from > cfg.IDLE_GRACE_SECONDS
              /\ result'.kind \in (IF cfg.STRICT_FILE_HANDOFF THEN {"grace_error"}
                                   ELSE {"fallback", "http_error"}))]_vars
    /\ [][(wpc = "track" /\ wpc' # wpc /\ status \notin IdleStatuses) =>
             (idle_since' = NoTime /\ wpc' = "timeout")]_vars
    /\ [](idle_since # NoTime => (obs.quiet_from # NoTime /\ obs.quiet_from <= idle_since))

\* The strict idle-grace error after a poll had seen the terminal working
\* and had cleared a running timer.
C18_Witness ==
    /\ wpc = "raised"
    /\ result.kind = "grace_error"
    /\ obs.was_reset
    /\ now - idle_since > cfg.IDLE_GRACE_SECONDS
    /\ now - start <= cfg.RESPONSE_TIMEOUT + 1

\* ------------------------------------------------------------------------
\* The step that evaluates "if elapsed > timeout".
TimeoutStep == wpc = "timeout" /\ wpc' # wpc

\* C19: once the elapsed time exceeds RESPONSE_TIMEOUT the wait ends at that
\* poll, by the status of that poll: idle or completed gives the strict
\* file-missing error or the non-strict fallback, any other status the
\* TimeoutError; before that the wait goes on. TimeoutError never carries an
\* idle or completed status, a file-missing error never a working one.
C19_TimeoutKinds ==
    /\ [][(TimeoutStep /\ now - start > cfg.RESPONSE_TIMEOUT) =>
             result'.kind \in (CASE status \notin IdleStatuses -> {"timeout_error"}
                                 [] cfg.STRICT_FILE_HANDOFF -> {"missing_error"}
                                 [] OTHER -> {"fallback", "http_error"})]_vars
    /\ [][(TimeoutStep /\ now - start <= cfg.RESPONSE_TIMEOUT) =>
             (wpc' = "sleep" /\ result' = result)]_vars
    /\ [](result.kind = "timeout_error" => result.status \notin IdleStatuses)
    /\ [](result.kind \in {"missing_error", "grace_error"} =>
             result.status \in IdleStatuses)

\* The timeout found the terminal idle inside the grace period: the strict
\* file-missing error, not a TimeoutError.
C19_Witness ==
    /\ wpc = "raised"
    /\ now - start > cfg.RESPONSE_TIMEOUT
    /\ result.kind = "missing_error"
    /\ result.status = "idle"
    /\ now - idle_since <= cfg.IDLE_GRACE_SECONDS

\* ------------------------------------------------------------------------
\* The REVIEW_NOTES section of a text: from its first REVIEW_NOTES: line to
\* the end of the text, empty without such a line.
NotesSection(text) ==
    IF \E i \in 1..Len(text) : text[i] = "REVIEW_NOTES:"
    THEN LET first == CHOOSE i \in 1..Len(text) :
                         /\ text[i] = "REVIEW_NOTES:"
                         /\ \A j \in 1..(i - 1) : text[j] # "REVIEW_NOTES:"
         IN [k \in 1..(Len(text) - first + 1) |-> text[first + k - 1]]
    ELSE <<>>

\* The patterns of the role's set, by number, with a match in the lines.
PatternsMatched(lines, role) ==
    {n \in 1..4 : \E i \in 1..Len(lines) :
        n \in (IF role = "analyst" THEN AnalystLineHits(lines[i])
               ELSE ProgrammerLineHits(lines[i]))}

\* C20: is_review_approved is true exactly when the text has the APPROVED
\* line, the cycle has reached MIN_REVIEW_CYCLES_BEFORE_APPROVAL, and either
\* evidence is not required or the REVIEW_NOTES section is non-blank and at
\* least REVIEW_EVIDENCE_MIN_MATCH patterns of the role match inside it.
C20_ApprovedExactlyWhen ==
    (call.fn = "is_review_approved" /\ call.done) =>
        (call.value <=>
            /\ \E i \in 1..Len(call.review_text) :
                  call.review_text[i] = "REVIEW_RESULT: APPROVED"
            /\ call.review_cycle >= cfg.MIN_REVIEW_CYCLES_BEFORE_APPROVAL
            /\ \/ ~cfg.REQUIRE_REVIEW_EVIDENCE
               \/ /\ NotesSection(call.review_text) # <<>>
                  /\ Cardinality(PatternsMatched(NotesSection(call.review_text),
                                                 call.review_role))
                       >= cfg.REVIEW_EVIDENCE_MIN_MATCH)

\* Approved on the evidence of two patterns inside the section.
C20_Witness ==
    /\ call.fn = "is_review_approved"
    /\ call.done
    /\ call.value
    /\ cfg.REQUIRE_REVIEW_EVIDENCE
    /\ cfg.REVIEW_EVIDENCE_MIN_MATCH = MaxEvidenceMatch
    /\ cfg.MIN_REVIEW_CYCLES_BEFORE_APPROVAL = MinCyclesBound
    /\ call.review_role = "analyst"
    /\ call.review_text = <<"REVIEW_RESULT: APPROVED", "REVIEW_NOTES:",
                            "- proposal verified", "- P1 traceability confirmed">>

\* ------------------------------------------------------------------------
\* The lines of a text hold a verdict word of pattern n within the window
\* after a domain word of pattern n (on the same or on the following line).
CoOccurs(lines, n) ==
    \E i \in 1..Len(lines) : \E d \in Keywords(lines[i]) :
        /\ d.n = n /\ d.part = "domain"
        /\ \/ \E v \in Keywords(lines[i]) :
                 /\ v.n = n /\ v.part = "verdict" /\ d.next = "space"
                 /\ v.at - (d.at + 2) \in 0..EvidenceWindow[n]
           \/ /\ i < Len(lines)
              /\ \E v \in Keywords(lines[i + 1]) :
                    /\ v.n = n /\ v.part = "verdict" /\ d.next = "end"
                    /\ v.at - 1 \in 0..EvidenceWindow[n]

\* No line holds a verdict word of any pattern.
NoJudgment(lines) ==
    \A i \in 1..Len(lines) : \A k \in Keywords(lines[i]) : k.part # "verdict"

\* The patterns of the role's set that is_review_approved counts for the notes.
RoleHits(lines, role) ==
    {n \in 1..4 : \E i \in 1..Len(lines) :
        n \in (IF role = "analyst"
               THEN AnalystLineHits(lines[i])
                    \cup (IF i < Len(lines)
                          THEN AnalystWrapHits(lines[i], lines[i + 1]) ELSE {})
               ELSE ProgrammerLineHits(lines[i]))}

\* C21: for both pattern sets a pattern is a hit only when a domain keyword
\* co-occurs with a verdict keyword within the window; notes without any
\* verdict word give zero hits, and with evidence required and a threshold
\* of at least one they are not approved.
C21_HitNeedsJudgment ==
    (call.fn = "is_review_approved" /\ call.done) =>
        LET notes == NotesSection(call.review_text)
        IN /\ \A n \in RoleHits(notes, call.review_role) : CoOccurs(notes, n)
           /\ NoJudgment(notes) =>
                /\ EvidenceHits(notes, call.review_role) = 0
                /\ (cfg.REQUIRE_REVIEW_EVIDENCE /\ cfg.REVIEW_EVIDENCE_MIN_MATCH >= 1)
                       => ~call.value

\* ------------------------------------------------------------------------
\* C22 as stated: an analyst prompt of a round after the first carries the
\* condensed failure evidence of the previous round's tester response.
C22_Original ==
    [][(Dispatching("analyst") /\ rnd > 1) =>
        last_prompt'.tester_feedback = extract_test_evidence(hist.tester_text)]_vars

\* C22: an analyst prompt of a round r > 1 carries the condensed failure
\* evidence of the tester response of round r - 1, unless the analyst review
\* gate was exhausted earlier in round r: then it carries the gate's notice
\* line followed by the condensed notes of a review.
C22_TesterFeedback ==
    [][(Dispatching("analyst") /\ rnd > 1) =>
        \/ last_prompt'.tester_feedback = extract_test_evidence(hist.tester_text)
        \/ /\ last_prompt'.tester_feedback # EmptyText
           /\ Head(last_prompt'.tester_feedback) = ANALYST_GATE_NOTICE
           /\ last_prompt'.tester_feedback = feedback]_vars

\* The analyst of round 2 is sent the evidence of the failed test of round 1.
C22_Witness ==
    /\ "analyst" \in in_flight
    /\ rnd = 2
    /\ hist.tester_text = TesterFail
    /\ last_prompt.slot = "analyst"
    /\ last_prompt.tester_feedback = extract_test_evidence(TesterFail)
    /\ ~Blank(last_prompt.tester_feedback)

\* ------------------------------------------------------------------------
\* The slot written by the START_AGENT role.
StartSlot == CHOOSE s \in Slots : SlotRole[s] = cfg.START_AGENT

\* The fresh initialisation completes in this step.
FreshInit == pc = "main" /\ pc' = "check_done" /\ ~resumed'

\* The first prompt of the process is sent in this step.
FirstDispatch == AnyDispatch /\ last_prompt = NoPrompt

\* The phase START_AGENT belongs to, and the placeholder in the slot of every
\* primary role that precedes START_AGENT in the pipeline.
StartsInOwnPhase ==
    /\ current_phase' = (CASE cfg.START_AGENT \in {"analyst", "peer_analyst"} -> "analyst"
                           [] cfg.START_AGENT \in {"programmer", "peer_programmer"} -> "programmer"
                           [] OTHER -> "tester")
    /\ current_round' = 1
    /\ (cfg.START_AGENT # "analyst") =>
            outputs'["analyst"] = _UPSTREAM_PLACEHOLDER
    /\ (cfg.START_AGENT \in {"peer_programmer", "tester"}) =>
            outputs'["programmer"] = _UPSTREAM_PLACEHOLDER

\* C23: a fresh run starts in the phase of START_AGENT with the placeholder
\* in the slots of the skipped upstream roles, and the first prompt of the
\* run goes to the START_AGENT role.
C23_StartsAtStartAgent ==
    /\ [][FreshInit => StartsInOwnPhase]_vars
    /\ [][FirstDispatch => Dispatching(StartSlot)]_vars

\* ------------------------------------------------------------------------
\* The primary dispatch of a cycle is skipped in this step.
SkipsPrimary == start_at_peer /\ ~start_at_peer'

\* C24: with START_AGENT a peer role the primary dispatch is skipped only in
\* the first cycle of the run, before any prompt was sent, and only once;
\* every other review is dispatched after the primary of its cycle.
C24_SkipOnlyFirstCycle ==
    /\ [][SkipsPrimary =>
            /\ cfg.START_AGENT \in {"peer_analyst", "peer_programmer"}
            /\ current_phase = _ROLE_PHASE_MAP[cfg.START_AGENT]
            /\ rnd = 1
            /\ (IF cfg.START_AGENT = "peer_analyst"
                THEN analyst_cycle ELSE programmer_cycle) = 1
            /\ last_prompt = NoPrompt]_vars
    /\ [][(pc # "main" /\ ~start_at_peer) => ~start_at_peer']_vars
    /\ [][(Dispatching("analyst_review") /\ ~FirstDispatch) =>
            /\ hist.primary_cycle = analyst_cycle
            /\ last_response.slot = "analyst"]_vars
    /\ [][(Dispatching("programmer_review") /\ ~FirstDispatch) =>
            /\ hist.primary_cycle = programmer_cycle
            /\ last_response.slot = "programmer"]_vars

\* Started at the peer analyst: the first review was sent without an analyst
\* dispatch, and the review of the second cycle follows the analyst's answer.
C24_Witness ==
    /\ cfg.START_AGENT = "peer_analyst"
    /\ pc = "ar_wait"
    /\ rnd = 1
    /\ analyst_cycle = 2
    /\ hist.pass_review = 2
    /\ hist.pass_primary = 1
    /\ last_response.slot = "analyst"

\* ------------------------------------------------------------------------
\* The state file has been loaded in this step.
Loads == pc # "verify" /\ pc' = "verify"

\* C25: a resume takes the phase and the round from the state file, whatever
\* START_AGENT is, and the resumed process skips no primary dispatch: every
\* review it dispatches follows the primary dispatch of the same cycle.
C25_ResumeIgnoresStartAgent ==
    /\ [][Loads => /\ current_phase' = state_file.current_phase
                   /\ current_round' = state_file.current_round
                   /\ state_file' = state_file]_vars
    /\ [](resumed => ~start_at_peer)
    /\ [][(resumed /\ Dispatching("analyst_review")) =>
            /\ hist.primary_cycle = analyst_cycle
            /\ last_response.slot = "analyst"]_vars
    /\ [][(resumed /\ Dispatching("programmer_review")) =>
            /\ hist.primary_cycle = programmer_cycle
            /\ last_response.slot = "programmer"]_vars

\* START_AGENT is peer_analyst and the process is killed in the first cycle,
\* before any round-trip completed; the resumed process, loaded into the
\* analyst phase of round 1, sends the analyst's prompt first.
C25_Witness ==
    /\ resumed
    /\ cfg.START_AGENT = "peer_analyst"
    /\ crash.active /\ crash.review_done = 0
    /\ current_round = 1
    /\ analyst_cycle = 1
    /\ in_flight = {"analyst"}
    /\ hist.pass_review = 0

\* C26: a resumed process dispatches an agent only after all five terminal ids
\* were found in the state file and the status query of each was answered; a
\* missing id or an unanswered query ends the process with exit code 1; a
\* stored provider that differs from the configured one is logged and ends
\* nothing.
AllBound == \A r \in VALID_AGENT_ROLES : terminal_ids[r] # ""

C26_VerifiedBeforeDispatch ==
    /\ [][(pc = "verify" /\ ~AllBound) =>
            (/\ pc' = "exited"
             /\ exit_code' = 1
             /\ ending'.by \in {"missing_terminal", "unreachable_terminal"})]_vars
    /\ [][(pc = "verify" /\ ending'.by = "unreachable_terminal") =>
            (pc' = "exited" /\ exit_code' = 1)]_vars
    /\ [][(pc = "verify" /\ AllBound /\ ending'.by # "unreachable_terminal") =>
            (pc' = "check_done" /\ exit_code' = NotExited)]_vars
    /\ [][(\E slot \in Slots : Dispatching(slot)) =>
            (resumed /\ AllBound /\ ending.by = "none")]_vars
    /\ [](ending.by \in {"missing_terminal", "unreachable_terminal"} =>
            (pc = "exited" /\ exit_code = 1 /\ in_flight = {}))

\* the analyst's terminal, of another provider, was passed with a warning and
\* the missing tester terminal ended the resume
C26_Witness ==
    /\ pc = "exited"
    /\ exit_code = 1
    /\ ending.by = "missing_terminal"
    /\ terminal_ids["analyst"] # ""
    /\ terminal_ids["tester"] = ""
    /\ warned = {"analyst"}

\* a resumed process whose analyst terminal is of another provider dispatches
C26_WarnedProceeds ==
    /\ resumed
    /\ warned = {"analyst"}
    /\ in_flight # {}

\* C27: whatever the state file holds, load_state raises nothing and leaves
\* an integer round (the stored value coerced with int(), or 1) and one of
\* the four phases (analyst for an unrecognised value).
Loaded == call.fn = "load_state" /\ call.done

C27_LoadNeverRaises ==
    [](Loaded => /\ call.value.raised = "none"
                 /\ call.value.current_round \in Int
                 /\ call.value.current_phase \in
                        {PHASE_ANALYST, PHASE_PROGRAMMER, PHASE_TESTER, PHASE_DONE})

\* the content is a JSON object whose terminals and outputs are objects or
\* absent, and whose round is no infinite float
WellShaped ==
    /\ call.doc.top = "dict"
    /\ call.doc.terminals.t \in {"dict", "missing"}
    /\ call.doc.outputs.t \in {"dict", "missing"}
    /\ call.doc.data.current_round # PyInf

\* on such content load_state raises nothing, coerces the round and replaces
\* an unknown phase; on any other content it raises
C27_WellShapedLoads ==
    [](Loaded =>
        /\ call.value.raised = "none" <=> WellShaped
        /\ WellShaped =>
             /\ call.value.current_round =
                  (LET val == call.doc.data.current_round
                   IN  IF val.t \in {"int", "float"} THEN val.n
                       ELSE IF val.t = "str" /\ val.v \in {<<"1">>, <<"2">>} THEN
                                IF val.v = <<"1">> THEN 1 ELSE 2
                       ELSE IF val = Str(" 3 ") THEN 3
                       ELSE 1)
             /\ call.value.current_phase =
                  (IF call.doc.data.current_phase = Str(PHASE_TESTER) THEN PHASE_TESTER
                   ELSE PHASE_ANALYST))

\* a truncated write was loaded
C27_Truncated == Loaded /\ call.doc.top = "text" /\ call.value.raised = "JSONDecodeError"

\* C28: save_state followed by load_state gives back the round, the phase,
\* the final status, the session name, the five terminal ids with their
\* providers, the three feedback buffers, programmer_context_for_retry and the
\* five outputs as they were saved; a bare terminal id of a legacy file is
\* loaded as {id, provider = the file's top-level provider}.
Reloaded == call.fn = "save_state" /\ call.done

C28_RoundTrip ==
    /\ [](Reloaded =>
            /\ call.value.raised = "none"
            /\ call.value.current_round = call.run.current_round
            /\ call.value.current_phase = call.run.current_phase
            /\ call.value.final_status = Str(call.run.final_status)
            /\ call.value.session_name = Str(call.run.session_name)
            /\ \A r \in VALID_AGENT_ROLES :
                  /\ call.value.terminal_ids[r] = Str(call.run.terminal_ids[r])
                  /\ call.value._loaded_state_terminals[r] =
                        TermDict(Str(call.run.terminal_ids[r]), Str(AGENT_CONFIG[r].provider))
            /\ call.value.feedback = PyStr(call.run.feedback)
            /\ call.value.analyst_feedback = PyStr(call.run.analyst_feedback)
            /\ call.value.programmer_feedback = PyStr(call.run.programmer_feedback)
            /\ call.value.programmer_context_for_retry =
                  PyStr(call.run.programmer_context_for_retry)
            /\ \A s \in Slots : call.value.outputs[s] = PyStr(call.run.outputs[s]))
    /\ [](Loaded /\ call.value.raised = "none" /\ call.doc.terminals.t = "dict" =>
            \A r \in VALID_AGENT_ROLES :
               LET val == call.doc.terminals.items[r]
               IN  (val.t = "str" /\ val.v # <<>>) =>
                     /\ call.value.terminal_ids[r] = PyStr(val.v)
                     /\ call.value._loaded_state_terminals[r] =
                           TermDict(PyStr(val.v), Get(call.doc.data.provider, Str(PROVIDER))))

\* a RunState of round 2 with bound terminals, feedback and an output was
\* saved and loaded
C28_Witness ==
    /\ Reloaded
    /\ call.run.current_round = 2
    /\ call.run.current_phase = PHASE_TESTER
    /\ call.run.terminal_ids["tester"] # ""
    /\ call.run.feedback = TesterFail
    /\ call.run.outputs["analyst"] = AnalystOut
    /\ call.value.outputs["analyst"] = PyStr(AnalystOut)

\* a legacy file with bare ids and a top-level provider was loaded
C28_LegacyLoaded ==
    /\ Loaded
    /\ call.doc.terminals.t = "dict"
    /\ call.doc.terminals.items["peer_analyst"] = TermBare(Str("term-peer_analyst"))
    /\ call.doc.data.provider = Str("claude_code")
    /\ call.value._loaded_state_terminals["peer_analyst"] =
          TermDict(Str("term-peer_analyst"), Str("claude_code"))

\* C29: when the creation of the session or of a terminal fails in a fresh
\* run, exit_terminal is requested for every terminal created so far, no
\* agent is dispatched, and the process exits with code 1 (a signal that
\* arrives before the teardown ends the process its own way).
Created == {created_terminal_ids[i] : i \in 1..Len(created_terminal_ids)}

C29_PartialCreationTornDown ==
    /\ [][(pc = "create_failed" /\ ending'.by # "signal") =>
            /\ pc' = "exited"
            /\ exit_code' = 1
            /\ ending'.by = "creation_failed"
            /\ Created \subseteq exit_requested']_vars
    /\ [](ending.by = "creation_failed" =>
            /\ pc = "exited"
            /\ exit_code = 1
            /\ Created = BoundTerminals
            /\ exit_requested = Created
            /\ in_flight = {}
            /\ last_prompt = NoPrompt)
    /\ [][(pc \in {"main", "create"} /\ pc' \notin {"create", "check_done", "exited"}) =>
            pc' = "create_failed"]_vars

\* the third creation failed and the two terminals created before were
\* asked to exit
C29_Witness ==
    /\ pc = "exited"
    /\ exit_code = 1
    /\ ending.by = "creation_failed"
    /\ created_terminal_ids = <<"term-analyst", "term-peer_analyst">>
    /\ exit_requested = {"term-analyst", "term-peer_analyst"}

\* C30: a process that ends normally, by SIGINT or SIGTERM, or by an
\* unhandled exception has attempted to save the state, a failing save
\* changing nothing else; has requested exit for every bound terminal if
\* CLEANUP_ON_EXIT is set and for none otherwise; and ends with its exit
\* code: 0 after the tester's PASS and 1 after the last round, 128 + the
\* signal number for a signal, 1 for an exception.
Ended == pc = "exited" /\ ending.by \in {"normal", "signal", "exception"}

\* the state was saved, or the save was attempted and failed
SaveAttempted ==
    IF ending.by = "normal" THEN state_file = Snapshot
    ELSE \/ ending.save = "written" /\ state_file = Snapshot
         \/ ending.save = "failed"

TerminalsReleased ==
    exit_requested = IF cfg.CLEANUP_ON_EXIT THEN BoundTerminals ELSE {}

EndsWithItsCode ==
    exit_code = CASE ending.by = "signal" -> 128 + ending.signum
                  [] ending.by = "exception" -> 1
                  [] OTHER -> IF final_status = "PASS" THEN 0 ELSE 1

\* once the final status is decided, only a signal changes the way the run
\* ends: a save that fails is swallowed
SaveFailureSwallowed ==
    (pc = "exited" /\ current_phase = PHASE_DONE /\ ending.by # "signal") =>
        /\ ending.by = "normal"
        /\ exit_code = IF final_status = "PASS" THEN 0 ELSE 1

C30_CleanupOnEveryExit ==
    /\ [](Ended => SaveAttempted /\ TerminalsReleased /\ EndsWithItsCode)
    /\ []SaveFailureSwallowed

\* the three ways to end without the failing save of the normal exit
C30_ExitPaths == [](Ended => SaveAttempted /\ TerminalsReleased /\ EndsWithItsCode)

\* the tester passed, the save of the final status raised, exit code 1
C30_PassLost ==
    /\ pc = "exited"
    /\ final_status = "PASS"
    /\ ending.by = "exception"
    /\ exit_code = 1

\* SIGTERM with CLEANUP_ON_EXIT: the state saved, five terminals released
C30_SignalEnd ==
    /\ pc = "exited"
    /\ ending = [by |-> "signal", save |-> "written", signum |-> SIGTERM]
    /\ exit_code = 143
    /\ cfg.CLEANUP_ON_EXIT
    /\ Cardinality(exit_requested) = 5
    /\ state_file = Snapshot

\* C31: within one process the first block built for a terminal id is the
\* full explore summary and every later block for the same id is the
\* placeholder, whatever was built for other ids: a terminal gets the full
\* summary at most once.
SeenBefore(i) == \E j \in 1..(i - 1) : call.log[j].id = call.log[i].id

C31_Original ==
    [](\A i \in 1..Len(call.log) :
          call.log[i].block = IF SeenBefore(i) THEN "placeholder" ELSE "full")

\* C31, amended: that holds while CONDENSE_EXPLORE_ON_REPEAT is on; with the
\* option off every block is the full summary.
C31_FullOncePerTerminal ==
    [](\A i \in 1..Len(call.log) :
          call.log[i].block = IF cfg.CONDENSE_EXPLORE_ON_REPEAT /\ SeenBefore(i)
                              THEN "placeholder" ELSE "full")

\* full for one id, full for another, then the placeholder for the first
C31_Witness ==
    /\ cfg.CONDENSE_EXPLORE_ON_REPEAT
    /\ Len(call.log) = 3
    /\ call.log[1] = [id |-> "term-analyst", block |-> "full"]
    /\ call.log[2] = [id |-> "term-programmer", block |-> "full"]
    /\ call.log[3] = [id |-> "term-analyst", block |-> "placeholder"]

\* in a run, a prompt with the full summary goes to a terminal that has not
\* had it in this process
C31_RunFullOnce ==
    [][\A slot \in {"analyst", "analyst_review", "programmer", "programmer_review"} :
         Dispatching(slot) =>
            (last_prompt'.explore = "full" <=> terminal_ids[SlotRole[slot]] \notin explore_sent)]_vars

\* ------------------------------------------------------------------------
\* C32 as stated: for every input text, each condensation function returns at
\* most its configured maximum number of lines.
C32_Original ==
    (call.fn \in CondenseFns /\ call.done) => Len(call.value) <= CondenseLimit(call.fn)

\* The text has no line that a pattern of the function matches.
NoMarkers(fn, text) == \A i \in 1..Len(text) : text[i] \in {"", "looks fine"}

\* C32: with its condensation option on, each condensation function returns
\* at most its configured maximum number of lines for every input text, also
\* for a text with none of the expected markers, of which it returns the head;
\* with the option off it returns the text unchanged.
C32_BoundedWhenCondensing ==
    (call.fn \in CondenseFns /\ call.done) =>
        /\ CondenseOn(call.fn) => Len(call.value) <= CondenseLimit(call.fn)
        /\ (CondenseOn(call.fn) /\ NoMarkers(call.fn, call.text)) =>
              call.value = Join(Take(call.text, CondenseLimit(call.fn)))
        /\ ~CondenseOn(call.fn) => call.value = call.text

\* C32 witness: a marker-free test text longer than the limit was cut to it.
C32_Witness ==
    /\ call.fn = "extract_test_evidence"
    /\ call.done
    /\ CondenseOn(call.fn)
    /\ NoMarkers(call.fn, call.text)
    /\ CondenseLimit(call.fn) >= 1
    /\ Len(call.text) > CondenseLimit(call.fn)
    /\ Len(call.value) = CondenseLimit(call.fn)

\* ------------------------------------------------------------------------
\* C33 as stated: for every non-blank upstream text the condensed text is
\* non-blank.
C33_Original ==
    (call.fn \in CondenseFns /\ call.done /\ ~Blank(call.text)) => ~Blank(call.value)

\* C33: for every text whose first line is not blank, and a line limit of at
\* least one, the condensed text is non-blank; when no section header is
\* found it is the head of the raw text.
C33_NonBlankHandoff ==
    (/\ call.fn \in CondenseFns
     /\ call.done
     /\ call.text # EmptyText
     /\ Head(call.text) \notin WhitespaceLines
     /\ CondenseLimit(call.fn) >= 1) =>
        /\ ~Blank(call.value)
        /\ (CondenseOn(call.fn) /\ NoMarkers(call.fn, call.text)) =>
              call.value = Join(Take(call.text, CondenseLimit(call.fn)))

\* C33 witness: an analyst text without a section header, longer than the
\* limit, went to the programmer as its non-blank head.
C33_Witness ==
    /\ call.fn = "condense_analyst_for_programmer"
    /\ call.done
    /\ CondenseOn(call.fn)
    /\ NoMarkers(call.fn, call.text)
    /\ call.text # EmptyText
    /\ Head(call.text) \notin WhitespaceLines
    /\ CondenseLimit(call.fn) >= 1
    /\ Len(call.text) > CondenseLimit(call.fn)
    /\ call.value = Take(call.text, CondenseLimit(call.fn))
    /\ ~Blank(call.value)

\* ------------------------------------------------------------------------
\* The output after the last user message shows the active-work line.
ActiveWorkShown(output) == Search(ACTIVE_WORK_LINES, OutputAfterLastUser(output))

\* C34: get_status reports PROCESSING whenever the output after the last user
\* message shows the active-work line, also with the prompt hint and the
\* 'context left' footer visible; IDLE or COMPLETED is reported only when no
\* active-work line is present.
C34_ActiveWorkIsProcessing ==
    (call.fn = "get_status" /\ call.done) =>
        /\ ActiveWorkShown(call.output) => call.value = "processing"
        /\ call.value \in {"idle", "completed"} => ~ActiveWorkShown(call.output)

\* The screen of test_get_status_processing_with_active_work_ui_overrides_idle
\* without its first exchange is reported COMPLETED.
C34_WorkingReportedCompleted ==
    /\ call.fn = "get_status"
    /\ call.done
    /\ call.output = <<"> Fix the bug", "* Analyzing codebase",
                       "Working (5s * esc to interrupt)", "92% context left">>
    /\ call.value = "completed"

\* ------------------------------------------------------------------------
\* C35: every state written to the state file, the save of the signal handler
\* between any two statements included, has current_phase = done exactly when
\* final_status is PASS or FAIL; a file with status RUNNING is never in phase
\* done.
C35_DoneIffFinal ==
    state_file.exists =>
        (state_file.current_phase = PHASE_DONE <=> state_file.final_status \in {"PASS", "FAIL"})

\* A signal between "current_phase = PHASE_DONE" and the assignment of
\* final_status left a file in phase done with status RUNNING.
C35_SignalSavedDoneRunning ==
    /\ ending.by = "signal"
    /\ ending.save = "written"
    /\ state_file.exists
    /\ state_file.current_phase = PHASE_DONE
    /\ state_file.final_status = "RUNNING"

\* ------------------------------------------------------------------------
\* C36: a signal during the tester-FAIL update never persists a half-applied
\* transition: every written state whose round is one more than the round of
\* the state written before has current_phase = analyst and all output slots
\* empty.
C36_FailUpdateAtomic ==
    [][(/\ state_file.exists
        /\ state_file'.exists
        /\ state_file'.current_round = state_file.current_round + 1) =>
            /\ state_file'.current_phase = PHASE_ANALYST
            /\ \A s \in Slots : state_file'.outputs[s] = EmptyText]_vars

\* A signal after "current_round += 1" left a file with the next round, the
\* phase tester and the outputs of the failed round.
C36_SignalSavedHalfFail ==
    /\ ending.by = "signal"
    /\ ending.save = "written"
    /\ state_file.exists
    /\ state_file.current_round = 2
    /\ state_file.current_phase = PHASE_TESTER
    /\ state_file.outputs["tester"] # EmptyText
    /\ ~HasPassMarker(state_file.outputs["tester"])

\* ------------------------------------------------------------------------
\* The process has ended.
Terminated == pc \in {"exited", "crashed"}

\* C37: for every configuration value, MAX_REVIEW_CYCLES = 0 included, and
\* every sequence of agent responses the main loop terminates.
C37_Terminates == <>Terminated

\* C37, second part: the loop never iterates forever without dispatching an
\* agent: as long as the process has not ended, a prompt is in flight again
\* and again.
C37_NoIdleLoop == []<>(Terminated \/ in_flight # {})

\* With MAX_REVIEW_CYCLES = 0 the loop has fallen back from the programmer
\* phase to the analyst phase without any agent output.
C37_RollbackWithoutOutput ==
    /\ cfg.MAX_REVIEW_CYCLES = 0
    /\ pc = "while"
    /\ current_round = 1
    /\ current_phase = PHASE_ANALYST
    /\ state_file.exists
    /\ state_file.current_phase = PHASE_ANALYST
    /\ hist.tester_dispatches = 0
    /\ \A slot \in Slots : outputs[slot] = EmptyText
    /\ feedback # EmptyText

\* ------------------------------------------------------------------------
\* C38: every state written to the state file comes from a completed
\* init_new_run or a successful load_state: a written state has the terminal
\* id of every role, and the cleanup save of a signal or an exception before
\* the initialisation has completed writes nothing.
C38_WrittenStateInitialised ==
    /\ [](state_file.exists => \A r \in VALID_AGENT_ROLES : state_file.terminals[r] # "")
    /\ [][(pc \in {"main", "create", "create_failed"}) =>
            (state_file' # state_file => pc' = "check_done")]_vars

\* A signal during init_new_run left a file with status RUNNING, the
\* analyst's terminal id and no terminal id for the tester.
C38_SignalSavedPartial ==
    /\ ending.by = "signal"
    /\ ending.save = "written"
    /\ state_file.exists
    /\ state_file.final_status = "RUNNING"
    /\ state_file.terminals["analyst"] # ""
    /\ state_file.terminals["tester"] = ""

\* ------------------------------------------------------------------------
\* The tester's latest response is stored and has no line with the PASS marker.
FailReceived ==
    /\ last_response.slot = "tester"
    /\ outputs["tester"] = last_response.text
    /\ ~HasPassMarker(last_response.text)

\* C39: final_status = PASS is recorded only when the tester's latest
\* response has a line starting with RESULT: PASS; every response without it,
\* one with no RESULT marker included, is handled as FAIL and consumes one
\* round.
C39_PassOnlyByMarker ==
    /\ [][(final_status' = "PASS" /\ final_status # "PASS") =>
            (PassReceived /\ outputs["tester"] = last_response.text)]_vars
    /\ []((state_file.exists /\ state_file.final_status = "PASS") =>
            HasPassMarker(state_file.outputs["tester"]))
    /\ [][(pc = "t_result" /\ FailReceived) =>
            (pc' = "t_fail_context" /\ final_status' = "RUNNING")]_vars
    /\ [][(pc = "t_fail_round") =>
            (FailReceived /\ current_round' = current_round + 1)]_vars
    /\ [][(current_round' # current_round) => pc = "t_fail_round"]_vars

\* C39 witness: a tester response without any RESULT marker was handled as
\* FAIL and the round was counted.
C39_Witness ==
    /\ pc = "t_fail_phase"
    /\ last_response.slot = "tester"
    /\ last_response.text = TesterNoMarker
    /\ current_round = 2
    /\ final_status = "RUNNING"

\* ------------------------------------------------------------------------
\* The create_terminal call has failed.
CreateFailed == call.fn = "create_terminal" /\ call.at = "raised"

\* C40: a failed create_terminal call has no lasting effect: every tmux
\* session that existed before the call still exists, also when new_session
\* is true and the name is taken, and no session, window or database record
\* created by the call remains.
C40_FailedCreateLeavesNothing ==
    CreateFailed =>
        /\ call.before.sessions \subseteq call.tmux.sessions
        /\ call.tmux.sessions \subseteq call.before.sessions
        /\ call.tmux.windows \subseteq call.before.windows
        /\ call.tmux.db \subseteq call.before.db

\* A call with new_session for a name that is taken has failed and the
\* session that had the name is gone.
C40_TakenSessionKilled ==
    /\ CreateFailed
    /\ call.new_session
    /\ call.session_name \in call.before.sessions
    /\ call.session_name \notin call.tmux.sessions

\* A call for an existing session has failed after the window and the
\* database record were created, and both remain.
C40_WindowAndRecordRemain ==
    /\ CreateFailed
    /\ ~call.new_session
    /\ TerminalOf(call.session_name, call.terminal_id) \in call.tmux.windows
    /\ TerminalOf(call.session_name, call.terminal_id) \in call.tmux.db

\* What the except branch does achieve: after a failed call with new_session
\* whose kill_session worked, the session of the call does not exist.
C40_NewSessionNotLeft ==
    [][(call.fn = "create_terminal" /\ call.at = "except" /\ call'.at = "raised"
        /\ call.new_session /\ call'.tmux.sessions # call.tmux.sessions) =>
            call.session_name \notin call'.tmux.sessions]_vars

====
